---- MODULE Spec2Model ----
(***************************************************************************)
(* frogmouth: the image resolver (utility/image_resolver.py).              *)
(*                                                                         *)
(* Strings are sequences of tokens: a token is a path separator "/", the   *)
(* authority marker "//", a scheme with its colon ("https:"), or a name.   *)
(* URL parsing, URL joining, str(url), Path(...), expanduser, resolve and  *)
(* the file lookup work on these tokens.  The file system has no symbolic  *)
(* links and is not changed while the resolver runs.                       *)
(***************************************************************************)
EXTENDS Integers, Sequences, FiniteSets, TLC

(***************************************************************************)
(* Bounds of the model.                                                    *)
(***************************************************************************)
NumTasks == 2
NumBodies == 2
MaxClients == 2

Tasks == 1..NumTasks
Bodies == 1..NumBodies

(***************************************************************************)
(* Python values.                                                          *)
(***************************************************************************)
\* Optional values: None is the empty tuple, a present value x is <<x>>.
None == <<>>
Some(x) == <<x>>
IsNone(o) == Len(o) = 0
Get(o) == o[1]

\* Truthiness of an optional string (`if result.error:`, `if not source:`).
Truthy(o) == Len(o) = 1 /\ Len(o[1]) > 0

(***************************************************************************)
(* Tokens.                                                                 *)
(***************************************************************************)
SchemeTokens == {"http:", "https:", "ftp:"}
SchemeName(tok) ==
    CASE tok = "http:" -> "http"
      [] tok = "https:" -> "https"
      [] tok = "ftp:" -> "ftp"
      [] OTHER -> ""
SchemeToken(name) ==
    CASE name = "http" -> "http:"
      [] name = "https" -> "https:"
      [] name = "ftp" -> "ftp:"
      [] OTHER -> ""

\* A token holding a non-printable character: httpx refuses to parse it.
BadTokens == {"\\x07"}

\* PurePath.suffix of a final component: the part from the last dot on, when
\* the dot is neither the first nor the last character of the name.
Suffix(name) ==
    CASE name = "readme.md" -> ".md"
      [] name = "doc.md" -> ".md"
      [] name = "notes.md" -> ".md"
      [] name = "a.png" -> ".png"
      [] name = "v1.2" -> ".2"
      [] OTHER -> ""

(***************************************************************************)
(* Segments of a "/"-separated token string.                               *)
(***************************************************************************)
IsSep(tok) == tok = "/" \/ tok = "//"

\* "a/b".split("/"): the names between separators, "" where two separators
\* meet or the string starts or ends with one.
RECURSIVE SplitFrom(_, _, _)
SplitFrom(toks, i, cur) ==
    IF i > Len(toks) THEN <<cur>>
    ELSE IF toks[i] = "/" THEN <<cur>> \o SplitFrom(toks, i + 1, "")
    ELSE SplitFrom(toks, i + 1, toks[i])
Split(toks) == IF Len(toks) = 0 THEN <<>> ELSE SplitFrom(toks, 1, "")

\* "/".join(segs)
RECURSIVE JoinSegs(_)
JoinSegs(segs) ==
    IF Len(segs) = 0 THEN <<>>
    ELSE IF Len(segs) = 1 THEN (IF segs[1] = "" THEN <<>> ELSE <<segs[1]>>)
    ELSE (IF segs[1] = "" THEN <<"/">> ELSE <<segs[1], "/">>) \o JoinSegs(Tail(segs))

Front(s) == SubSeq(s, 1, Len(s) - 1)
Last(s) == s[Len(s)]

(***************************************************************************)
(* httpx.URL: parsing, str() and join.                                     *)
(***************************************************************************)
\* httpx normalize_path: drop "." components, let ".." drop the component
\* before it, never the empty component that stands for the leading "/".
RECURSIVE NormalizeFrom(_, _, _)
NormalizeFrom(segs, i, out) ==
    IF i > Len(segs) THEN out
    ELSE IF segs[i] = "." THEN NormalizeFrom(segs, i + 1, out)
    ELSE IF segs[i] = ".."
        THEN NormalizeFrom(segs, i + 1,
                 IF Len(out) > 0 /\ out # <<"">> THEN Front(out) ELSE out)
    ELSE NormalizeFrom(segs, i + 1, Append(out, segs[i]))
NormalizePath(segs) == NormalizeFrom(segs, 1, <<>>)

NoURL == [ok |-> FALSE, scheme |-> "", host |-> "", segs |-> <<>>]
MkURL(scheme, host, segs) ==
    [ok |-> TRUE, scheme |-> scheme, host |-> host, segs |-> segs]

\* URL(source): ok = FALSE stands for httpx.InvalidURL being raised.  A path
\* under a scheme or an authority is normalized, and is "/" when empty.
ParseURL(toks) ==
    IF \E i \in 1..Len(toks) : toks[i] \in BadTokens THEN NoURL
    ELSE IF Len(toks) > 0 /\ toks[1] \in SchemeTokens
        THEN IF Len(toks) > 2 /\ toks[2] = "//"
             THEN LET p == NormalizePath(Split(SubSeq(toks, 4, Len(toks))))
                  IN  MkURL(SchemeName(toks[1]), toks[3],
                            IF Len(p) = 0 THEN <<"", "">> ELSE p)
             ELSE MkURL(SchemeName(toks[1]), "",
                        NormalizePath(Split(SubSeq(toks, 2, Len(toks)))))
    ELSE MkURL("", "", Split(toks))

\* str(url)
Str(url) ==
    (IF url.scheme = "" THEN <<>> ELSE <<SchemeToken(url.scheme)>>)
    \o (IF url.host = "" THEN <<>> ELSE <<"//", url.host>>)
    \o JoinSegs(url.segs)

\* urllib.parse.urljoin's path resolution: ".." pops (ignored when nothing is
\* left), "." is skipped.
RECURSIVE ResolveSegs(_, _, _)
ResolveSegs(segs, i, out) ==
    IF i > Len(segs) THEN out
    ELSE IF segs[i] = ".."
        THEN ResolveSegs(segs, i + 1, IF Len(out) > 0 THEN Front(out) ELSE out)
    ELSE IF segs[i] = "." THEN ResolveSegs(segs, i + 1, out)
    ELSE ResolveSegs(segs, i + 1, Append(out, segs[i]))

\* segments[1:-1] = filter(None, segments[1:-1])
DropInnerEmpty(segs) ==
    LET keep == {i \in 1..Len(segs) : i = 1 \/ i = Len(segs) \/ segs[i] # ""}
        RECURSIVE Pick(_)
        Pick(i) == IF i > Len(segs) THEN <<>>
                   ELSE (IF i \in keep THEN <<segs[i]>> ELSE <<>>) \o Pick(i + 1)
    IN  Pick(1)

\* urllib.parse.urljoin(str(base), str(ref)) for a base with an authority,
\* on the parsed forms; the result as a string.
UrlJoin(base, ref) ==
    IF ref.scheme # "" /\ ref.scheme # base.scheme THEN Str(ref)
    ELSE IF ref.host # "" THEN Str(MkURL(base.scheme, ref.host, ref.segs))
    ELSE IF Len(ref.segs) = 0 THEN Str(base)
    ELSE LET base_parts == IF Last(base.segs) # "" THEN Front(base.segs)
                           ELSE base.segs
             segments == DropInnerEmpty(
                 IF ref.segs[1] = "" /\ Len(ref.segs) > 1 THEN ref.segs
                 ELSE base_parts \o ref.segs)
             resolved == ResolveSegs(segments, 1, <<>>)
             closed == IF Last(segments) \in {".", ".."}
                       THEN Append(resolved, "") ELSE resolved
             path == IF Len(JoinSegs(closed)) = 0 THEN <<"/">>
                     ELSE JoinSegs(closed)
         IN  <<SchemeToken(base.scheme), "//", base.host>>
             \o (IF path[1] = "/" THEN <<>> ELSE <<"/">>) \o path

\* URL.join: URL(urljoin(str(self), str(URL(url)))); InvalidURL when the
\* reference does not parse.
JoinURL(base, toks) ==
    LET ref == ParseURL(toks)
    IN  IF ~ref.ok THEN NoURL ELSE ParseURL(UrlJoin(base, ref))

(***************************************************************************)
(* pathlib.Path and the file system.                                       *)
(***************************************************************************)
\* The working directory, the home directory, and what exists on disk: each
\* an absolute path given by its components.
Cwd == <<"work">>
Home == <<"home">>
Dirs == {<<>>, <<"docs">>, <<"docs", "v1.2">>, <<"docs", "img">>, <<"work">>,
         <<"home">>, <<"work", "ftp:">>, <<"work", "ftp:", "h">>}
Files == {<<"docs", "readme.md">>, <<"docs", "img", "a.png">>,
          <<"work", "notes.md">>, <<"home", "a.png">>,
          <<"work", "ftp:", "h", "x.png">>}

MkPath(abs, parts) == [abs |-> abs, parts |-> parts]

\* Path(source): separators split the components, "." components are
\* dropped, ".." and "~" are kept as written.
RECURSIVE PartsFrom(_, _)
PartsFrom(toks, i) ==
    IF i > Len(toks) THEN <<>>
    ELSE (IF IsSep(toks[i]) \/ toks[i] = "." THEN <<>> ELSE <<toks[i]>>)
         \o PartsFrom(toks, i + 1)
PathOf(toks) == MkPath(Len(toks) > 0 /\ IsSep(toks[1]), PartsFrom(toks, 1))

\* str(path)
RECURSIVE Interleave(_)
Interleave(parts) ==
    IF Len(parts) = 0 THEN <<>>
    ELSE IF Len(parts) = 1 THEN <<parts[1]>>
    ELSE <<parts[1], "/">> \o Interleave(Tail(parts))
PathStr(p) ==
    IF p.abs THEN <<"/">> \o Interleave(p.parts)
    ELSE IF Len(p.parts) = 0 THEN <<".">>
    ELSE Interleave(p.parts)

is_absolute(p) == p.abs

\* base / candidate
PathJoin(a, b) == IF b.abs THEN b ELSE MkPath(a.abs, a.parts \o b.parts)

\* Path.expanduser: only a leading "~" of a relative path is expanded.
expanduser(p) ==
    IF ~p.abs /\ Len(p.parts) > 0 /\ p.parts[1] = "~"
    THEN MkPath(TRUE, Home \o Tail(p.parts))
    ELSE p

\* Path.resolve(): made absolute against the working directory, ".."
\* collapsed (no symbolic links; at the root ".." stays at the root).
RECURSIVE CollapseFrom(_, _, _)
CollapseFrom(parts, i, out) ==
    IF i > Len(parts) THEN out
    ELSE IF parts[i] = ".."
        THEN CollapseFrom(parts, i + 1, IF Len(out) > 0 THEN Front(out) ELSE out)
    ELSE CollapseFrom(parts, i + 1, Append(out, parts[i]))
resolve_path(p) ==
    MkPath(TRUE, CollapseFrom(IF p.abs THEN p.parts ELSE Cwd \o p.parts, 1, <<>>))

\* Path.parent and Path.suffix
parent(p) == IF Len(p.parts) = 0 THEN p ELSE MkPath(p.abs, Front(p.parts))
suffix(p) == IF Len(p.parts) = 0 THEN "" ELSE Suffix(Last(p.parts))

\* The operating system's lookup of a path (stat): the components are walked
\* from the root or the working directory; every component on the way must
\* be an existing directory, also one that a later ".." leaves again.
\* Walk gives Some(the absolute path reached) or None.
RECURSIVE Walk(_, _, _)
Walk(parts, i, cur) ==
    IF i > Len(parts) THEN Some(cur)
    ELSE IF parts[i] = ".."
        THEN Walk(parts, i + 1, IF Len(cur) > 0 THEN Front(cur) ELSE cur)
    ELSE LET next == Append(cur, parts[i])
         IN  IF next \in Dirs THEN Walk(parts, i + 1, next)
             ELSE IF next \in Files /\ i = Len(parts) THEN Some(next)
             ELSE None
Locate(p) == Walk(p.parts, 1, IF p.abs THEN <<>> ELSE Cwd)
Stat(p) ==
    IF IsNone(Locate(p)) THEN "none"
    ELSE IF Get(Locate(p)) \in Files THEN "file"
    ELSE "dir"
exists(p) == Stat(p) # "none"
is_file(p) == Stat(p) = "file"

(***************************************************************************)
(* Inputs: the references resolved and the document locations set.         *)
(***************************************************************************)
Sources == {
    <<>>,
    <<"img", "/", "a.png">>,
    <<"/", "docs", "/", "img", "/", "a.png">>,
    <<"/", "docs", "/", "..", "/", "a.png">>,
    <<"https:", "//", "h", "/", "docs", "/", "img", "/", "a.png">>,
    <<"ftp:", "//", "h", "/", "x.png">>,
    <<"~", "/", "a.png">>,
    <<"\\x07">> }

PathLocation(toks) == [kind |-> "path", path |-> PathOf(toks), url |-> NoURL]
URLLocation(toks) ==
    [kind |-> "url", path |-> MkPath(FALSE, <<>>), url |-> ParseURL(toks)]
NoLocation == [kind |-> "none", path |-> MkPath(FALSE, <<>>), url |-> NoURL]

Locations == {
    NoLocation,
    PathLocation(<<"/", "docs">>),
    PathLocation(<<"/", "docs", "/", "readme.md">>),
    PathLocation(<<"/", "docs", "/", "doc.md">>),
    PathLocation(<<"/", "docs", "/", "v1.2">>),
    URLLocation(<<"https:", "//", "h", "/", "docs", "/", "readme.md">>),
    URLLocation(<<"ftp:", "//", "h", "/", "docs", "/", "readme.md">>) }

(***************************************************************************)
(* The transport: what a GET can be answered with.                         *)
(***************************************************************************)
Statuses == {200, 404, 500}
Messages == {<<>>, <<"timed out">>}
Response(status, body) ==
    [kind |-> "response", status |-> status, body |-> body, msg |-> <<>>]
RequestError(msg) == [kind |-> "error", status |-> 0, body |-> 0, msg |-> msg]
NoResponse == [kind |-> "none", status |-> 0, body |-> 0, msg |-> <<>>]
Responses ==
    {Response(200, b) : b \in Bodies}
    \cup {Response(c, 0) : c \in Statuses \ {200}}
    \cup {RequestError(m) : m \in Messages}

\* Response.is_success
is_success(resp) == 200 <= resp.status /\ resp.status < 300

\* str(HTTPStatusError): the error type, the status code and the URL.
StatusMessage(resp, key) ==
    <<(CASE resp.status \div 100 = 1 -> "Informational response"
         [] resp.status \div 100 = 3 -> "Redirect response"
         [] resp.status \div 100 = 4 -> "Client error"
         [] OTHER -> "Server error"),
      ToString(resp.status), "for url">> \o key

(***************************************************************************)
(* ImageLoadResult                                                         *)
(***************************************************************************)
NoPayload == [kind |-> "none", data |-> 0, path |-> MkPath(FALSE, <<>>)]
BytesPayload(b) == [kind |-> "bytes", data |-> b, path |-> MkPath(FALSE, <<>>)]
PathPayload(p) == [kind |-> "path", data |-> 0, path |-> p]

ImageLoadResult(location, payload, error) ==
    [location |-> location, payload |-> payload, error |-> error]

(***************************************************************************)
(* ImageResolver: the state.                                               *)
(***************************************************************************)
VARIABLES
    base_path,   \* _base_path: None or Some(path)
    base_url,    \* _base_url: None or Some(url)
    client,      \* _client: 0 for None, else the identity of the client
    cache,       \* _cache: a function from str(url) to the bytes stored
    lock,        \* _lock: "free", or "aclose" while aclose holds it
    waiters,     \* the coroutines waiting for _lock, first come first
                 \* served: a task, or 0 for aclose
    pc,          \* per resolve call: "idle", "wait_lock" or "fetching"
    call,        \* per resolve call in flight: its locals
    closer,      \* aclose: "idle", "wait" or "closing"
    created,     \* how often the client factory has been invoked
    first,       \* per str(url): the bytes of the first Success returned
    last,        \* per str(url): the bytes of the latest successful fetch
    event,       \* what happens in this step: a resolve call returns,
                 \* raises, suspends or is cancelled, update_location is
                 \* called, or aclose returns
    block,       \* per MarkdownImage (block t runs its resolve call as
                 \* call t): its fields and the position of its load task
    markdown,    \* the ImageMarkdown widget: its table of contents, its
                 \* mounted blocks, the messages it has posted and the
                 \* await_update coroutines of its update calls
    loader,      \* image_loader: the process it runs in and the cache of
                 \* load_image_support
    tree,        \* the FilteredDirectoryTree: its last filter_paths call
    paragraph    \* an ImageMarkdownParagraph in build_from_token: the
                 \* children of its token, the locals of the call, its
                 \* blocks and its content

vars == <<base_path, base_url, client, cache, lock, waiters, pc, call,
          closer, created, first, last, event, block, markdown, loader, tree,
          paragraph>>

\* The variables of the resolver.
resolver_vars == <<base_path, base_url, client, cache, lock, waiters, pc, call,
                   closer, created, first, last>>

\* The variables of the image blocks and their resolver.
image_vars == <<resolver_vars, event, block>>

\* The variables of the other widgets and of the loader.
app_vars == <<markdown, loader, tree, paragraph>>

\* The clients whose aclose() has been called: clients are numbered as they
\* are created, and only the newest can still be open.
closed == {c \in 1..created : c # client \/ closer = "closing"}

\* key, client: the locals of _resolve_remote.  after: whether a Success for
\* the key had been returned before the call started.
NoCall == [key |-> <<>>, client |-> 0, after |-> FALSE]

NoEvent ==
    [kind |-> "none", task |-> 0, source |-> <<>>, remote |-> FALSE,
     key |-> <<>>,
     base |-> None, result |-> ImageLoadResult(<<>>, NoPayload, None),
     after |-> FALSE, resp |-> NoResponse, exc |-> "", loc |-> NoLocation,
     client |-> 0]

\* A resolve call returns `result`.
Returned(source, remote, key, base, result, after, resp) ==
    [NoEvent EXCEPT !.kind = "returned", !.source = source,
                    !.remote = remote, !.key = key, !.base = base,
                    !.result = result, !.after = after, !.resp = resp]

\* A resolve call raises `exc` to its caller.
Raised(source, base, exc) ==
    [NoEvent EXCEPT !.kind = "raised", !.source = source, !.base = base,
                    !.exc = exc]

\* The resolve call of task t has classified `source` as remote, missed the
\* cache and suspends: on the lock, or on the GET it has issued.
Suspended(t, source, key, base) ==
    [NoEvent EXCEPT !.kind = "suspended", !.task = t, !.source = source,
                    !.remote = TRUE, !.key = key, !.base = base]

\* update_location(location) was called.
Updated(location) == [NoEvent EXCEPT !.kind = "updated", !.loc = location]

\* aclose() returns, having closed client c (0: there was none to close).
Closed(c) == [NoEvent EXCEPT !.kind = "closed", !.client = c]

\* The resolve call of task t gets CancelledError at the await it is
\* suspended in; key is the key of the call.
Cancelled(t, key) == [NoEvent EXCEPT !.kind = "cancelled", !.task = t,
                                     !.remote = TRUE, !.key = key]

\* MarkdownImage.__init__: state is "new", "mounted" or "unmounted"; task is
\* the position of the coroutine _load: "none" (not created), "scheduled"
\* (created, not yet run), "resolving" (suspended in resolve), "mounting"
\* (suspended in mount), "done" or "cancelled".
\* "crashed": an exception has left the coroutine.  content is the text the
\* block shows, widget_payload what the image widget was built from.
NewBlock ==
    [state |-> "new", source |-> <<>>, support |-> FALSE, load_task |-> FALSE,
     task |-> "none", image_widget |-> FALSE, last_error |-> None,
     alt_text |-> <<>>, title |-> <<>>, content |-> <<>>, tooltip |-> None,
     widget_payload |-> NoPayload]

\* A call that ends hands its outcome to its caller in the same step, before
\* the event loop runs anything else: `event` holds it for that one step.
Quiet == event.kind = "none"

\* ImageMarkdown.__init__: no table of contents, nothing mounted, nothing
\* posted.  updates counts the update calls, stream and raised are the
\* argument and the exception ("" for none) of the latest one; host_toc is
\* the table of contents the host received last, with the update call (doc)
\* it came from.
NewMarkdown ==
    [updates |-> 0, stream |-> <<>>, raised |-> "",
     table_of_contents |-> <<>>, posted |-> <<>>,
     host_toc |-> [doc |-> 0, toc |-> <<>>],
     tasks |-> <<>>, mounted |-> <<>>]

\* The process at start: sys.__stdout__ a terminal, FROGMOUTH_SUPPRESS_
\* TEXTUAL_IMAGE not set, textual-image installed, the cache of
\* load_image_support empty.  calls and imports count the calls and the
\* import attempts; outcome is what the latest call did, and whether it
\* entered _suppress_terminal_detection.
NewLoader ==
    [stdout |-> "tty", suppress |-> FALSE, module |-> "installed",
     cached |-> None, calls |-> 0, imports |-> 0,
     outcome |-> [kind |-> "none", value |-> "none", suppressed |-> FALSE]]

\* FilteredDirectoryTree.__init__; paths and result are the argument and
\* the return value of the filter_paths call, once there is one.
NewTree == [calls |-> 0, paths |-> <<>>, result |-> <<>>,
            last_filter_result |-> <<>>]

\* An ImageMarkdownParagraph made for an inline token with these children,
\* before build_from_token is called: `at` is the child the loop is at, pc
\* is "new" before the call, "loop" in its loop and "done" after
\* set_content; style_stack, link_stack, content and has_non_image_text are
\* the locals of the call, blocks is _blocks, text the content that was set.
NewParagraph(children) ==
    [children |-> children, at |-> 1, style_stack |-> << >>,
     link_stack |-> << >>, content |-> << >>, has_non_image_text |-> FALSE,
     blocks |-> << >>, text |-> << >>, pc |-> "new"]

\* dict(): no key.
EmptyCache == [k \in {} |-> 0]
\* cache[key] = content
CachePut(c, key, content) == (key :> content) @@ c

InitImages ==
    /\ base_path = None
    /\ base_url = None
    /\ client = 0
    /\ cache = EmptyCache
    /\ lock = "free"
    /\ waiters = << >>
    /\ pc = [t \in Tasks |-> "idle"]
    /\ call = [t \in Tasks |-> NoCall]
    /\ closer = "idle"
    /\ created = 0
    /\ first = EmptyCache
    /\ last = EmptyCache
    /\ event = NoEvent
    /\ block = [t \in Tasks |-> NewBlock]

Init ==
    /\ InitImages
    /\ markdown = NewMarkdown
    /\ loader = NewLoader
    /\ tree = NewTree
    /\ paragraph = NewParagraph(<< >>)

(***************************************************************************)
(* update_location                                                         *)
(***************************************************************************)
\* The base directory a Path location sets.
BaseOfPath(location) ==
    IF is_file(location) \/ suffix(location) # "" THEN parent(location)
    ELSE location

\* update_location that sets its own field and does not clear the other.
update_location_keep(location) ==
    /\ Quiet
    /\ UNCHANGED app_vars
    /\ IF location.kind = "path"
       THEN /\ base_path' = Some(BaseOfPath(location.path))
            /\ UNCHANGED base_url
       ELSE IF location.kind = "url"
       THEN /\ base_url' = Some(location.url)
            /\ UNCHANGED base_path
       ELSE /\ base_path' = None
            /\ base_url' = None
    /\ event' = Updated(location)
    /\ UNCHANGED <<client, cache, lock, waiters, pc, call, closer, created,
                   first, last, block>>

update_location(location) ==
    /\ Quiet
    /\ UNCHANGED app_vars
    /\ IF location.kind = "path"
       THEN /\ base_path' = Some(BaseOfPath(location.path))
            /\ base_url' = None
       ELSE IF location.kind = "url"
       THEN /\ base_url' = Some(location.url)
            /\ base_path' = None
       ELSE /\ base_path' = None
            /\ base_url' = None
    /\ event' = Updated(location)
    /\ UNCHANGED <<client, cache, lock, waiters, pc, call, closer, created,
                   first, last, block>>

(***************************************************************************)
(* MarkdownImage._load: from the end of the resolve call to the next       *)
(* suspension.                                                             *)
(***************************************************************************)
\* _initial_caption: the alt text, else the title, else the source.
initial_caption(b) ==
    IF Len(b.alt_text) > 0 THEN b.alt_text
    ELSE IF Len(b.title) > 0 THEN b.title
    ELSE b.source

\* The reason appended without the parentheses.
WithReasonBare(caption, reason) == caption \o <<" ">> \o reason

\* f"{caption} ({reason})"
WithReason(caption, reason) == caption \o <<" (">> \o reason \o <<")">>

\* Whether the image widget can be built from the payload: the bytes, or the
\* file at the path, decode as an image.  The widget class opens the image
\* when it is constructed and raises when it cannot.
Decodable(payload) ==
    CASE payload.kind = "bytes" -> payload.data = 1
      [] payload.kind = "path" ->
             /\ is_file(payload.path)
             /\ suffix(payload.path) = ".png"
      [] OTHER -> FALSE

\* _load once the image widget is built from the payload: the error and the
\* caption are cleared, the tooltip is the location when there is one, and
\* the coroutine suspends in `await self.mount(image_widget)`.
ShowImage(b, result) ==
    [b EXCEPT !.task = "mounting", !.image_widget = TRUE,
              !.last_error = None, !.widget_payload = result.payload,
              !.content = <<>>,
              !.tooltip = IF Len(result.location) > 0
                          THEN Some(result.location) ELSE @]

\* _load after `await self._resolver.resolve(...)` has returned or raised
\* e: the handle is dropped, then the block takes the error, or builds the
\* image widget and suspends in mount().
AfterResolve(b, e) ==
    IF e.kind = "raised"
    THEN [b EXCEPT !.load_task = FALSE, !.task = "done",
                   !.last_error = Some(<<e.exc>>),
                   !.content = WithReason(initial_caption(b), <<e.exc>>)]
    ELSE IF Truthy(e.result.error)
    THEN [b EXCEPT !.load_task = FALSE, !.task = "done",
                   !.last_error = e.result.error,
                   !.content = IF Len(initial_caption(b)) > 0
                               THEN WithReason(initial_caption(b),
                                               Get(e.result.error))
                               ELSE Get(e.result.error)]
    ELSE IF e.result.payload.kind = "none"
    THEN [b EXCEPT !.load_task = FALSE, !.task = "done",
                   !.last_error = Some(<<"Unsupported image payload">>),
                   !.content = WithReason(initial_caption(b),
                                          <<"Unsupported image payload">>)]
    ELSE IF ~Decodable(e.result.payload)
    THEN [b EXCEPT !.load_task = FALSE, !.task = "crashed"]
    ELSE ShowImage([b EXCEPT !.load_task = FALSE], e.result)

\* The caller of resolve goes on in the step in which the call ends or
\* suspends.  The load task of a block is suspended with the call, or runs
\* on with its outcome; any other caller leaves the block alone.
Caller(b, e) ==
    IF b.task \notin {"scheduled", "resolving"} THEN b
    ELSE IF e.kind = "suspended" THEN [b EXCEPT !.task = "resolving"]
    ELSE AfterResolve(b, e)

(***************************************************************************)
(* resolve: the part that runs without suspending.                         *)
(***************************************************************************)
\* The exception classes involved and their base classes (httpx.InvalidURL
\* derives from Exception alone).
Bases(exc) ==
    CASE exc = "InvalidURL" -> {"InvalidURL", "Exception"}
      [] exc = "HTTPStatusError" -> {"HTTPStatusError", "HTTPError", "Exception"}
      [] exc = "RequestError" -> {"RequestError", "HTTPError", "Exception"}
      [] OTHER -> {exc}
Catches(handler, exc) == handler \in Bases(exc)

\* _coerce_url without the join against the base URL.
coerce_url_direct(source, burl) ==
    LET direct == ParseURL(source)
    IN  IF ~direct.ok /\ ~Catches("ValueError", "InvalidURL")
            THEN [exc |-> "InvalidURL", url |-> NoURL]
        ELSE IF direct.ok /\ direct.scheme \in {"http", "https"}
            THEN [exc |-> "", url |-> direct]
        ELSE [exc |-> "", url |-> NoURL]

\* _coerce_url: exc names the exception that leaves it, if any; url.ok is
\* FALSE when it returns None.
CoerceResult(exc, url) == [exc |-> exc, url |-> url]
coerce_url(source, burl) ==
    LET direct == ParseURL(source)
    IN  IF ~direct.ok /\ ~Catches("ValueError", "InvalidURL")
            THEN CoerceResult("InvalidURL", NoURL)
        ELSE IF direct.ok /\ direct.scheme \in {"http", "https"}
            THEN CoerceResult("", direct)
        ELSE IF direct.ok /\ direct.scheme # ""
            THEN CoerceResult("", NoURL)
        ELSE IF IsNone(burl)
            THEN CoerceResult("", NoURL)
        ELSE LET joined == JoinURL(Get(burl), source)
             IN  IF ~joined.ok THEN CoerceResult("InvalidURL", NoURL)
                 ELSE IF joined.scheme \in {"http", "https"}
                     THEN CoerceResult("", joined)
                 ELSE CoerceResult("", NoURL)

\* Candidate with the base directory ignored: always the working directory.
CandidateCwd(source, bpath) ==
    IF ~is_absolute(PathOf(source))
    THEN resolve_path(expanduser(PathJoin(MkPath(TRUE, Cwd), PathOf(source))))
    ELSE PathOf(source)

\* The path _resolve_local looks up.
Candidate(source, bpath) ==
    IF ~is_absolute(PathOf(source))
    THEN resolve_path(expanduser(PathJoin(
             IF IsNone(bpath) THEN MkPath(TRUE, Cwd) ELSE Get(bpath),
             PathOf(source))))
    ELSE PathOf(source)

\* _resolve_local
resolve_local(source, bpath) ==
    LET candidate == Candidate(source, bpath)
    IN  IF exists(candidate)
        THEN ImageLoadResult(PathStr(candidate), PathPayload(candidate), None)
        ELSE ImageLoadResult(PathStr(candidate), NoPayload,
                             Some(<<"Image file not found">>))

\* The result for an empty source.
EmptySourceResult ==
    ImageLoadResult(<<>>, NoPayload, Some(<<"Empty image source">>))

\* The result for a key found in the cache.
CachedResult(key) == ImageLoadResult(key, BytesPayload(cache[key]), None)

\* `key in self._cache`
CacheHas(key) == key \in DOMAIN cache

\* FetchResult without raise_for_status(): every response is a Success.
FetchResultNoRaise(key, resp) ==
    IF resp.kind = "error" THEN ImageLoadResult(key, NoPayload, Some(resp.msg))
    ELSE ImageLoadResult(key, BytesPayload(resp.body), None)

\* What _resolve_remote returns for the answer to its GET.
FetchResult(key, resp) ==
    IF resp.kind = "error" THEN ImageLoadResult(key, NoPayload, Some(resp.msg))
    ELSE IF ~is_success(resp)
        THEN ImageLoadResult(key, NoPayload, Some(StatusMessage(resp, key)))
    ELSE ImageLoadResult(key, BytesPayload(resp.body), None)

\* CacheAfter with the store left out: `self._cache[key] = content` is missing.
CacheAfterLost(key, resp) == cache

\* CacheAfter that stores the body of every response, whatever its status.
CacheAfterAny(key, resp) ==
    IF resp.kind = "response"
    THEN CachePut(cache, key, resp.body)
    ELSE cache

\* CacheAfter that keeps the bytes already stored under the key.
CacheAfterFirst(key, resp) ==
    IF resp.kind = "response" /\ is_success(resp) /\ key \notin DOMAIN cache
    THEN CachePut(cache, key, resp.body)
    ELSE cache

\* The cache after _resolve_remote has handled the answer to its GET.
CacheAfter(key, resp) ==
    IF resp.kind = "response" /\ is_success(resp)
    THEN CachePut(cache, key, resp.body)
    ELSE cache

\* Whether `result` carries bytes.
HasBytes(result) == result.payload.kind = "bytes"

\* The call ends here: e is what its caller gets.
Deliver(e) ==
    /\ event' = e
    /\ first' = IF e.kind = "returned" /\ e.remote
                   /\ e.result.payload.kind = "bytes"
                   /\ e.key \notin DOMAIN first
                THEN CachePut(first, e.key, e.result.payload.data)
                ELSE first
    /\ last' = IF e.resp.kind = "response" /\ is_success(e.resp)
               THEN CachePut(last, e.key, e.resp.body)
               ELSE last

\* WithLock without the `if self._client is None` test: every caller
\* invokes the factory.
WithLockAlways(t, c) ==
    /\ created < MaxClients
    /\ client' = created + 1
    /\ created' = created + 1
    /\ call' = [call EXCEPT ![t] = [c EXCEPT !.client = created + 1]]
    /\ pc' = [pc EXCEPT ![t] = "fetching"]

\* The body of _ensure_client under the lock, and the GET that follows it
\* without a suspension in between.
WithLock(t, c) ==
    /\ IF client = 0
       THEN /\ created < MaxClients
            /\ client' = created + 1
            /\ created' = created + 1
            /\ call' = [call EXCEPT ![t] = [c EXCEPT !.client = created + 1]]
       ELSE /\ call' = [call EXCEPT ![t] = [c EXCEPT !.client = client]]
            /\ UNCHANGED <<client, created>>
    /\ pc' = [pc EXCEPT ![t] = "fetching"]

\* _ensure_client that also waits while another call's GET is pending.
ensure_client_serial(t, c) ==
    IF lock = "free" /\ waiters = << >> /\ \A u \in Tasks : pc[u] # "fetching"
    THEN /\ WithLock(t, c)
         /\ UNCHANGED waiters
    ELSE /\ waiters' = Append(waiters, t)
         /\ pc' = [pc EXCEPT ![t] = "wait_lock"]
         /\ call' = [call EXCEPT ![t] = c]
         /\ UNCHANGED <<client, created>>

\* _ensure_client: `async with self._lock` is entered at once when the lock
\* is free and nobody waits for it, and waits in line otherwise.
ensure_client(t, c) ==
    IF lock = "free" /\ waiters = << >>
    THEN /\ WithLock(t, c)
         /\ UNCHANGED waiters
    ELSE /\ waiters' = Append(waiters, t)
         /\ pc' = [pc EXCEPT ![t] = "wait_lock"]
         /\ call' = [call EXCEPT ![t] = c]
         /\ UNCHANGED <<client, created>>

\* _resolve_remote up to its first suspension.
resolve_remote(t, source, url) ==
    LET key == Str(url)
    IN  IF CacheHas(key)
        THEN /\ Deliver(Returned(source, TRUE, key, base_url, CachedResult(key),
                                 key \in DOMAIN first, NoResponse))
             /\ UNCHANGED <<client, created, waiters, pc, call>>
        ELSE /\ ensure_client(t, [NoCall EXCEPT !.key = key,
                                     !.after = key \in DOMAIN first])
             /\ event' = Suspended(t, source, key, base_url)
             /\ UNCHANGED <<first, last>>

\* IsEmptySource with the guard left out.
IsEmptySourceNever(source) == FALSE

\* `not source`
IsEmptySource(source) == Len(source) = 0

resolve(t, source) ==
    /\ Quiet
    /\ UNCHANGED app_vars
    /\ pc[t] = "idle"
    /\ LET co == coerce_url(source, base_url)
       IN  IF IsEmptySource(source)
           THEN /\ Deliver(Returned(source, FALSE, <<>>, base_url,
                                    EmptySourceResult, FALSE, NoResponse))
                /\ UNCHANGED <<client, created, waiters, pc, call>>
           ELSE IF co.exc # ""
           THEN /\ Deliver(Raised(source, base_url, co.exc))
                /\ UNCHANGED <<client, created, waiters, pc, call>>
           ELSE IF co.url.ok
           THEN resolve_remote(t, source, co.url)
           ELSE /\ Deliver(Returned(source, FALSE, <<>>, base_url,
                                    resolve_local(source, base_path), FALSE,
                                    NoResponse))
                /\ UNCHANGED <<client, created, waiters, pc, call>>
    /\ block' = [block EXCEPT ![t] = Caller(@, event')]
    /\ UNCHANGED <<base_path, base_url, cache, lock, closer>>

\* A waiting resolve call gets the lock.
lock_granted(t) ==
    /\ Quiet
    /\ UNCHANGED app_vars
    /\ pc[t] = "wait_lock"
    /\ lock = "free"
    /\ waiters # << >>
    /\ Head(waiters) = t
    /\ waiters' = Tail(waiters)
    /\ WithLock(t, call[t])
    /\ event' = NoEvent
    /\ UNCHANGED <<base_path, base_url, cache, lock, closer, first, last,
                   block>>

\* respond with the key taken from the base location as it is when the GET
\* is answered: no key when the base URL has been cleared meanwhile.
respond_rebased(t, resp) ==
    /\ Quiet
    /\ UNCHANGED app_vars
    /\ pc[t] = "fetching"
    /\ LET key == IF IsNone(base_url) THEN <<>> ELSE call[t].key
       IN  /\ cache' = CacheAfter(key, resp)
           /\ Deliver(Returned(<<>>, TRUE, key, None, FetchResult(key, resp),
                               call[t].after, resp))
    /\ pc' = [pc EXCEPT ![t] = "idle"]
    /\ call' = [call EXCEPT ![t] = NoCall]
    /\ block' = [block EXCEPT ![t] = Caller(@, event')]
    /\ UNCHANGED <<base_path, base_url, client, lock, waiters, closer, created>>

\* The GET of a resolve call is answered and the call runs to its end.
respond(t, resp) ==
    /\ Quiet
    /\ UNCHANGED app_vars
    /\ pc[t] = "fetching"
    /\ cache' = CacheAfter(call[t].key, resp)
    /\ Deliver(Returned(<<>>, TRUE, call[t].key, None,
                        FetchResult(call[t].key, resp), call[t].after, resp))
    /\ pc' = [pc EXCEPT ![t] = "idle"]
    /\ call' = [call EXCEPT ![t] = NoCall]
    /\ block' = [block EXCEPT ![t] = Caller(@, event')]
    /\ UNCHANGED <<base_path, base_url, client, lock, waiters, closer, created>>

(***************************************************************************)
(* aclose                                                                  *)
(***************************************************************************)
\* CloseBody without the `if self._client is not None` test.
CloseBodyAlways ==
    /\ lock' = "aclose"
    /\ closer' = "closing"
    /\ event' = NoEvent

\* The body of aclose under the lock, up to `await self._client.aclose()`;
\* with no client the call returns at once.
CloseBody ==
    IF client # 0
    THEN /\ lock' = "aclose"
         /\ closer' = "closing"
         /\ event' = NoEvent
    ELSE /\ closer' = "idle"
         /\ event' = Closed(0)
         /\ UNCHANGED lock

aclose ==
    /\ Quiet
    /\ UNCHANGED app_vars
    /\ closer = "idle"
    /\ IF lock = "free" /\ waiters = << >>
       THEN /\ CloseBody
            /\ UNCHANGED waiters
       ELSE /\ waiters' = Append(waiters, 0)
            /\ closer' = "wait"
            /\ event' = NoEvent
            /\ UNCHANGED lock
    /\ UNCHANGED <<base_path, base_url, client, cache, pc, call, created,
                   first, last, block>>

\* A waiting aclose gets the lock.
aclose_granted ==
    /\ Quiet
    /\ UNCHANGED app_vars
    /\ closer = "wait"
    /\ lock = "free"
    /\ waiters # << >>
    /\ Head(waiters) = 0
    /\ waiters' = Tail(waiters)
    /\ CloseBody
    /\ UNCHANGED <<base_path, base_url, client, cache, pc, call, created,
                   first, last, block>>

\* The client's aclose() completes: the client is dropped, the lock released.
aclose_done ==
    /\ Quiet
    /\ UNCHANGED app_vars
    /\ closer = "closing"
    /\ client' = 0
    /\ lock' = "free"
    /\ closer' = "idle"
    /\ event' = Closed(client)
    /\ UNCHANGED <<base_path, base_url, cache, waiters, pc, call, created,
                   first, last, block>>

\* The caller has taken what the call handed over.
resumed ==
    /\ ~Quiet
    /\ event' = NoEvent
    /\ UNCHANGED app_vars
    /\ UNCHANGED <<base_path, base_url, client, cache, lock, waiters, pc, call,
                   closer, created, first, last, block>>

(***************************************************************************)
(* MarkdownImage: mount, the load task, unmount.                           *)
(***************************************************************************)
\* The waiters without task t.
Remove(seq, t) == SelectSeq(seq, LAMBDA w : w # t)

\* cancel that leaves the cancelled call in line for the lock.
cancel_keeps_waiter(t) ==
    /\ Quiet
    /\ UNCHANGED app_vars
    /\ pc[t] \in {"wait_lock", "fetching"}
    /\ pc' = [pc EXCEPT ![t] = "idle"]
    /\ call' = [call EXCEPT ![t] = NoCall]
    /\ event' = Cancelled(t, call[t].key)
    /\ UNCHANGED <<base_path, base_url, client, cache, lock, closer, created,
                   first, last, waiters>>

\* CancelledError reaches resolve call t at the await it is suspended in:
\* the wait for the lock is given up, or the GET is abandoned.
cancel(t) ==
    /\ Quiet
    /\ UNCHANGED app_vars
    /\ pc[t] \in {"wait_lock", "fetching"}
    /\ waiters' = Remove(waiters, t)
    /\ pc' = [pc EXCEPT ![t] = "idle"]
    /\ call' = [call EXCEPT ![t] = NoCall]
    /\ event' = Cancelled(t, call[t].key)
    /\ UNCHANGED <<base_path, base_url, client, cache, lock, closer, created,
                   first, last>>

\* MarkdownImage.__init__ for an image token: the block shows its initial
\* caption.
Built(b, image, support) ==
    LET made == [b EXCEPT !.source = image.source, !.alt_text = image.alt_text,
                          !.title = image.title, !.support = support]
    IN  [made EXCEPT !.content = initial_caption(made)]

\* on_mount without the test of the capability.
on_mount_unchecked(t, image, support) ==
    LET made == Built(block[t], image, support)
    IN  /\ Quiet
        /\ UNCHANGED app_vars
        /\ block[t].state = "new"
        /\ block' = [block EXCEPT ![t] =
               [made EXCEPT !.state = "mounted",
                            !.load_task = TRUE, !.task = "scheduled"]]
        /\ UNCHANGED <<resolver_vars, event>>

\* Block t, built for the image token `image` with or without the image
\* capability, is mounted.
on_mount(t, image, support) ==
    LET made == Built(block[t], image, support)
    IN  /\ Quiet
        /\ UNCHANGED app_vars
        /\ block[t].state = "new"
        /\ block' = [block EXCEPT ![t] =
               IF ~support
               THEN [made EXCEPT !.state = "mounted",
                         !.last_error =
                             Some(<<"Inline images require textual-image">>),
                         !.content =
                             WithReason(initial_caption(made),
                                 <<"Inline images require textual-image">>)]
               ELSE [made EXCEPT !.state = "mounted",
                         !.load_task = TRUE, !.task = "scheduled"]]
        /\ UNCHANGED <<resolver_vars, event>>

\* The load task of block t runs for the first time: it calls resolve.
load_start(t) ==
    /\ block[t].task = "scheduled"
    /\ resolve(t, block[t].source)

\* The GET of the load task of block t is answered.
load_resumed(t, resp) ==
    /\ block[t].task = "resolving"
    /\ respond(t, resp)

\* load_mounted that reports an error once the widget is mounted.
load_mounted_error(t) ==
    /\ Quiet
    /\ UNCHANGED app_vars
    /\ block[t].task = "mounting"
    /\ block' = [block EXCEPT ![t] =
           [@ EXCEPT !.task = "done", !.last_error = Some(<<"mounted">>)]]
    /\ UNCHANGED <<resolver_vars, event>>

\* `await self.mount(image_widget)` completes and the layout is refreshed.
load_mounted(t) ==
    /\ Quiet
    /\ UNCHANGED app_vars
    /\ block[t].task = "mounting"
    /\ block' = [block EXCEPT ![t] = [@ EXCEPT !.task = "done"]]
    /\ UNCHANGED <<resolver_vars, event>>

\* on_unmount that drops the handle without cancelling the task.
on_unmount_nocancel(t) ==
    /\ Quiet
    /\ UNCHANGED app_vars
    /\ block[t].state = "mounted"
    /\ block' = [block EXCEPT ![t] =
           [@ EXCEPT !.state = "unmounted", !.load_task = FALSE]]
    /\ UNCHANGED <<resolver_vars, event>>

\* Block t is unmounted: a task whose handle the block holds is cancelled
\* (its coroutine returns on CancelledError), and the handle is dropped.
on_unmount(t) ==
    /\ Quiet
    /\ UNCHANGED app_vars
    /\ block[t].state = "mounted"
    /\ IF block[t].load_task /\ block[t].task = "resolving"
       THEN cancel(t)
       ELSE UNCHANGED <<resolver_vars, event>>
    /\ block' = [block EXCEPT ![t] =
           [@ EXCEPT !.state = "unmounted", !.load_task = FALSE,
                     !.task = IF block[t].load_task
                                 /\ @ \in {"scheduled", "resolving", "mounting"}
                              THEN "cancelled" ELSE @]]

\* The steps of a resolver used by the resolve calls T, with references from
\* S, document locations from L and answers to a GET from R.
NextOf(T, S, L, R) ==
    \/ \E location \in L : update_location(location)
    \/ \E t \in T, source \in S : resolve(t, source)
    \/ \E t \in T : lock_granted(t)
    \/ \E t \in T, resp \in R : respond(t, resp)
    \/ aclose
    \/ aclose_granted
    \/ aclose_done
    \/ resumed

\* One resolve call at a time, next to aclose and update_location, over every
\* reference and location.
Next == NextOf({1}, Sources, Locations, Responses)
Spec == Init /\ [][Next]_vars

\* Concurrent resolve calls for one URL, reached by a relative reference
\* under the base URL and by an absolute one, and one answer of each kind
\* that fills or skips the cache.
ConcurrentSources == {
    <<"img", "/", "a.png">>,
    <<"https:", "//", "h", "/", "docs", "/", "img", "/", "a.png">> }
ConcurrentLocations == {
    NoLocation,
    URLLocation(<<"https:", "//", "h", "/", "docs", "/", "readme.md">>) }
ConcurrentResponses ==
    {Response(200, b) : b \in Bodies} \cup {Response(404, 0)}
NextConcurrent ==
    NextOf(Tasks, ConcurrentSources, ConcurrentLocations, ConcurrentResponses)
SpecConcurrent == Init /\ [][NextConcurrent]_vars

\* Image blocks on one resolver: every resolve call is the load task of a
\* block.  The document holds one image per block: the first a reference
\* that is local under a base directory and remote under a base URL, every
\* further one a remote one.
BlockSource(t) ==
    IF t = 1 THEN <<"img", "/", "a.png">>
    ELSE <<"https:", "//", "h", "/", "docs", "/", "img", "/", "a.png">>

\* The image tokens block t can be built for: its reference (with an alt
\* text for the first block), or an empty reference with or without a title.
BlockImages(t) == {
    [source |-> BlockSource(t),
     alt_text |-> IF t = 1 THEN <<"Alt">> ELSE <<>>, title |-> <<>>],
    [source |-> <<>>, alt_text |-> <<>>, title |-> <<"T">>],
    [source |-> <<>>, alt_text |-> <<>>, title |-> <<>>] }
BlockLocations == {
    PathLocation(<<"/", "docs">>),
    URLLocation(<<"https:", "//", "h", "/", "docs", "/", "readme.md">>) }
BlockResponses ==
    {Response(200, 1), Response(200, 2), Response(404, 0), RequestError(<<>>)}
NextBlocks ==
    \/ \E location \in BlockLocations : update_location(location)
    \/ \E t \in Tasks, support \in BOOLEAN :
           \E image \in BlockImages(t) : on_mount(t, image, support)
    \/ \E t \in Tasks : load_start(t)
    \/ \E t \in Tasks : lock_granted(t)
    \/ \E t \in Tasks, resp \in BlockResponses : load_resumed(t, resp)
    \/ \E t \in Tasks : load_mounted(t)
    \/ \E t \in Tasks : on_unmount(t)
    \/ aclose
    \/ aclose_granted
    \/ aclose_done
    \/ resumed
SpecBlocks == Init /\ [][NextBlocks]_vars

(***************************************************************************)
(* ImageMarkdown.update: the block builder.                                *)
(***************************************************************************)
MaxUpdates == 2
MaxDepth == 6

\* Tokens of the parser: the type, the heading level of the tag ("h2": 2),
\* the content, for an inline token the number of its image children, and
\* the info string, which is empty but for the item of an ordered list.
Token(type, tag, content, images) ==
    [type |-> type, tag |-> tag, content |-> content, images |-> images,
     info |-> ""]

HeadingTokens(level, content) ==
    << Token("heading_open", level, "", 0),
       Token("inline", 0, content, 0),
       Token("heading_close", level, "", 0) >>
ParagraphTokens(content, images) ==
    << Token("paragraph_open", 0, "", 0),
       Token("inline", 0, content, images),
       Token("paragraph_close", 0, "", 0) >>

\* The tokens of a list item: of an ordered list when `info` is its number,
\* of a bullet list when it is empty; the item holds a paragraph and then
\* the tokens `inner`.
ListItemTokens(info, content, inner) ==
    << [Token("list_item_open", 0, "", 0) EXCEPT !.info = info] >>
        \o ParagraphTokens(content, 0) \o inner
        \o << Token("list_item_close", 0, "", 0) >>
BulletListTokens(items) ==
    << Token("bullet_list_open", 0, "", 0) >> \o items
        \o << Token("bullet_list_close", 0, "", 0) >>
OrderedListTokens(items) ==
    << Token("ordered_list_open", 0, "", 0) >> \o items
        \o << Token("ordered_list_close", 0, "", 0) >>

\* Bullet lists nested `depth` deep, one item each.
RECURSIVE NestedBullets(_)
NestedBullets(depth) ==
    IF depth = 0 THEN << >>
    ELSE BulletListTokens(ListItemTokens("", "item", NestedBullets(depth - 1)))

\* The token streams update is called with: what the parser gives for a
\* heading, a paragraph with an image and text, and a fence; for two
\* headings; for a block quote with a heading and an image in it, and a
\* rule; for the empty document; and streams that a parser should not give:
\* a close with no open container (a generic one, and a paragraph's), and a
\* container left open at the end.
DocRoundTrip ==
    HeadingTokens(1, "Intro") \o ParagraphTokens("see", 1)
        \o << Token("fence", 0, "code", 0) >>
DocTwoHeadings == HeadingTokens(1, "Intro") \o HeadingTokens(2, "Usage")
DocQuote ==
    << Token("blockquote_open", 0, "", 0) >>
        \o HeadingTokens(2, "Quoted") \o ParagraphTokens("", 1)
        \o << Token("blockquote_close", 0, "", 0), Token("hr", 0, "", 0) >>
DocEmpty == << >>
\* A bullet list of two items, the second with a fence and a list in it; an
\* ordered list whose item holds a bullet list within a bullet list; bullet
\* lists nested deeper than there are bullets; and a table.
DocList ==
    BulletListTokens(
        ListItemTokens("", "one", << >>)
        \o ListItemTokens("", "two",
               << Token("fence", 0, "code", 0) >>
               \o BulletListTokens(ListItemTokens("", "three", << >>))))
DocOrdered ==
    OrderedListTokens(
        ListItemTokens("1", "first", NestedBullets(2))
        \o ListItemTokens("2", "second", << >>))
DocDeep == NestedBullets(MaxDepth)
DocTable ==
    << Token("table_open", 0, "", 0), Token("thead_open", 0, "", 0),
       Token("tr_open", 0, "", 0), Token("th_open", 0, "", 0),
       Token("inline", 0, "name", 0), Token("th_close", 0, "", 0),
       Token("tr_close", 0, "", 0), Token("thead_close", 0, "", 0),
       Token("tbody_open", 0, "", 0), Token("tr_open", 0, "", 0),
       Token("td_open", 0, "", 0), Token("inline", 0, "value", 0),
       Token("td_close", 0, "", 0), Token("tr_close", 0, "", 0),
       Token("tbody_close", 0, "", 0), Token("table_close", 0, "", 0) >>
DocStrayClose ==
    HeadingTokens(1, "Intro") \o << Token("blockquote_close", 0, "", 0) >>
DocStrayParagraphClose ==
    ParagraphTokens("text", 0) \o << Token("paragraph_close", 0, "", 0) >>
DocLeftOpen ==
    << Token("blockquote_open", 0, "", 0) >> \o HeadingTokens(1, "Intro")
Documents ==
    { DocRoundTrip, DocTwoHeadings, DocQuote, DocEmpty, DocStrayClose,
      DocStrayParagraphClose, DocLeftOpen, DocList, DocOrdered, DocDeep,
      DocTable }

\* token.type.endswith("_close"), for the types that reach that branch.
EndsWithClose(type) ==
    type \in {"heading_close", "blockquote_close", "bullet_list_close",
              "ordered_list_close", "list_item_close", "table_close",
              "thead_close", "tbody_close", "tr_close", "th_close",
              "td_close"}

\* Markdown.BULLETS, the bullets of the items of bullet lists.
BULLETS == << "disc", "square", "triangle", "dot", "star" >>

\* A block: its kind, for a heading its level, its id (n for "block{n}", 0
\* for None) and the heading text captured from its inline token, for a
\* list item its bullet or its number, and the blocks built into it.
MkNode(kind) ==
    [kind |-> kind, level |-> 0, id |-> 0, text |-> None, marker |-> "",
     blocks |-> << >>]

\* The children of a block: the blocks built into it.
children(node) == node.blocks

\* ImageMarkdownParagraph.build_from_token: one MarkdownImage per image
\* child of the inline token; the other blocks only take the text.
build_from_token(node, token) ==
    IF node.kind = "paragraph"
    THEN [node EXCEPT !.blocks =
             @ \o [i \in 1..token.images |-> MkNode("image")]]
    ELSE node

\* update that starts from the table of contents of the call before.
StartKeep(table_of_contents) ==
    [output |-> << >>, stack |-> << >>, block_id |-> 0,
     toc |-> table_of_contents, raised |-> ""]

\* The locals of update before the first token: `output`, `stack`,
\* `block_id`, and self._table_of_contents, which is reset.
Start(table_of_contents) ==
    [output |-> << >>, stack |-> << >>, block_id |-> 0,
     toc |-> << >>, raised |-> ""]

Top(st) == st.stack[Len(st.stack)]
Pop(st) == SubSeq(st.stack, 1, Len(st.stack) - 1)

\* item_count that counts the items of ordered lists as well.
item_count_any(stack) ==
    Cardinality({i \in 1..Len(stack) :
                    stack[i].kind \in {"unordered_list_item",
                                       "ordered_list_item"}})

\* item_count: the MarkdownUnorderedListItem blocks on the stack.
item_count(stack) ==
    Cardinality({i \in 1..Len(stack) :
                    stack[i].kind = "unordered_list_item"})

\* Place that puts the block before the blocks that are there.
PlaceFirst(st, node) ==
    IF st.stack # << >>
    THEN [st EXCEPT !.stack[Len(st.stack)].blocks = << node >> \o @]
    ELSE [st EXCEPT !.output = << node >> \o @]

\* (stack[-1]._blocks if stack else output).append(node)
Place(st, node) ==
    IF st.stack # << >>
    THEN [st EXCEPT !.stack[Len(st.stack)].blocks = Append(@, node)]
    ELSE [st EXCEPT !.output = Append(@, node)]

\* One turn of the loop over the tokens.  stack.pop() and stack[-1] raise
\* IndexError on an empty stack.
Consume(st, token) ==
    CASE token.type = "heading_open" ->
             [st EXCEPT !.block_id = @ + 1,
                        !.stack = Append(@, [MkNode("heading") EXCEPT
                                      !.level = token.tag,
                                      !.id = st.block_id + 1])]
      [] token.type = "hr" ->
             [st EXCEPT !.output = Append(@, MkNode("hr"))]
      [] token.type = "paragraph_open" ->
             [st EXCEPT !.stack = Append(@, MkNode("paragraph"))]
      [] token.type = "paragraph_close" ->
             IF st.stack = << >>
             THEN [st EXCEPT !.raised = "IndexError"]
             ELSE [st EXCEPT !.output = @ \o children(Top(st)),
                             !.stack = Pop(st)]
      [] token.type = "blockquote_open" ->
             [st EXCEPT !.stack = Append(@, MkNode("blockquote"))]
      [] token.type = "bullet_list_open" ->
             [st EXCEPT !.stack = Append(@, MkNode("bullet_list"))]
      [] token.type = "ordered_list_open" ->
             [st EXCEPT !.stack = Append(@, MkNode("ordered_list"))]
      [] token.type = "list_item_open" ->
             IF token.info # ""
             THEN [st EXCEPT !.stack = Append(@,
                      [MkNode("ordered_list_item") EXCEPT
                          !.marker = token.info])]
             ELSE [st EXCEPT !.stack = Append(@,
                      [MkNode("unordered_list_item") EXCEPT
                          !.marker = BULLETS[(item_count(st.stack)
                                              % Len(BULLETS)) + 1]])]
      [] token.type = "table_open" ->
             [st EXCEPT !.stack = Append(@, MkNode("table"))]
      [] token.type = "tbody_open" ->
             [st EXCEPT !.stack = Append(@, MkNode("tbody"))]
      [] token.type = "thead_open" ->
             [st EXCEPT !.stack = Append(@, MkNode("thead"))]
      [] token.type = "tr_open" ->
             [st EXCEPT !.stack = Append(@, MkNode("tr"))]
      [] token.type = "th_open" ->
             [st EXCEPT !.stack = Append(@, MkNode("th"))]
      [] token.type = "td_open" ->
             [st EXCEPT !.stack = Append(@, MkNode("td"))]
      [] EndsWithClose(token.type) ->
             IF st.stack = << >>
             THEN [st EXCEPT !.raised = "IndexError"]
             ELSE LET popped == Top(st)
                      heading == IF popped.text # None
                                 THEN Get(popped.text) ELSE ""
                  IN  Place([st EXCEPT
                                !.stack = Pop(st),
                                !.toc = IF token.type = "heading_close"
                                        THEN Append(@, <<token.tag, heading,
                                                         popped.id>>)
                                        ELSE @],
                            popped)
      [] token.type = "inline" ->
             IF st.stack # << >> /\ Top(st).kind = "heading"
             THEN [st EXCEPT !.stack[Len(st.stack)].text =
                                 Some(token.content)]
             ELSE IF st.stack = << >>
             THEN [st EXCEPT !.raised = "IndexError"]
             ELSE [st EXCEPT !.stack[Len(st.stack)] =
                                 build_from_token(@, token)]
      [] token.type = "fence" -> Place(st, MkNode("fence"))
      [] OTHER -> st

\* The loop over the tokens from the i-th on, up to the end of the stream
\* or the first exception.
RECURSIVE Build(_, _, _)
Build(tokens, i, st) ==
    IF i > Len(tokens) \/ st.raised # "" THEN st
    ELSE Build(tokens, i + 1, Consume(st, tokens[i]))

\* The blocks of update call `doc`, as mounted.
Tagged(doc, output) == [i \in 1..Len(output) |-> [doc |-> doc, node |-> output[i]]]

\* update(markdown) on the token stream the parser gives: the table of
\* contents is rebuilt and posted to the host, and the coroutine
\* await_update that swaps the blocks is created; an exception in the loop
\* leaves update before either.
update(stream) ==
    LET st == Build(stream, 1, Start(markdown.table_of_contents))
        doc == markdown.updates + 1
        called == [markdown EXCEPT !.updates = doc, !.stream = stream,
                                   !.raised = st.raised,
                                   !.table_of_contents = st.toc]
    IN  /\ markdown.updates < MaxUpdates
        /\ markdown' =
               IF st.raised # "" THEN called
               ELSE [called EXCEPT
                        !.posted = Append(@, [doc |-> doc, toc |-> st.toc]),
                        !.tasks = Append(@, [doc |-> doc, pc |-> "remove",
                                             output |-> st.output])]
        /\ UNCHANGED <<image_vars, loader, tree, paragraph>>

\* The host handles the oldest TableOfContentsUpdated message.
toc_received ==
    /\ markdown.posted # << >>
    /\ markdown' = [markdown EXCEPT !.host_toc = Head(markdown.posted),
                                    !.posted = Tail(@)]
    /\ UNCHANGED <<image_vars, loader, tree, paragraph>>

\* await_update of the i-th coroutine: `await markdown_block.remove()` has
\* removed the blocks that were mounted.
await_update_removed(i) ==
    /\ i \in 1..Len(markdown.tasks)
    /\ markdown.tasks[i].pc = "remove"
    /\ markdown' = [markdown EXCEPT !.mounted = << >>,
                                    !.tasks[i].pc = "mount"]
    /\ UNCHANGED <<image_vars, loader, tree, paragraph>>

\* await_update of the i-th coroutine: `await self.mount_all(output)` has
\* mounted its blocks after those that are there.
await_update_mounted(i) ==
    /\ i \in 1..Len(markdown.tasks)
    /\ markdown.tasks[i].pc = "mount"
    /\ markdown' = [markdown EXCEPT
           !.mounted = @ \o Tagged(markdown.tasks[i].doc,
                                   markdown.tasks[i].output),
           !.tasks[i].pc = "done"]
    /\ UNCHANGED <<image_vars, loader, tree, paragraph>>

NextMarkdown ==
    \/ \E stream \in Documents : update(stream)
    \/ toc_received
    \/ \E i \in 1..MaxUpdates : await_update_removed(i)
    \/ \E i \in 1..MaxUpdates : await_update_mounted(i)
SpecMarkdown == Init /\ [][NextMarkdown]_vars

(***************************************************************************)
(* image_loader.load_image_support                                         *)
(***************************************************************************)
MaxCalls == 3

\* sys.__stdout__: a terminal, a stream that is none (a pipe, a file), or
\* None.
Stdouts == {"tty", "notty", "none"}

\* importlib.import_module("textual_image.widget"): the module is there, it
\* is not installed (ModuleNotFoundError), or importing it raises another
\* exception.
Modules == {"installed", "missing", "broken"}

InitLoader ==
    /\ InitImages
    /\ markdown = NewMarkdown
    /\ tree = NewTree
    /\ paragraph = NewParagraph(<< >>)
    /\ loader \in {[NewLoader EXCEPT !.stdout = s, !.module = m,
                                     !.suppress = e] :
                       s \in Stdouts, m \in Modules, e \in BOOLEAN}

\* getattr(sys.__stdout__, "isatty", lambda: False)()
is_tty(stdout) == stdout = "tty"

\* The body of load_image_support: what the call does, and whether its
\* result is kept by lru_cache (a return is, an exception is not).
LoadOutcome(stdout, module) ==
    LET suppressed == ~is_tty(stdout)
    IN  CASE module = "installed" ->
                 [kind |-> "returned", value |-> "ImageSupport",
                  suppressed |-> suppressed]
          [] module = "missing" ->
                 [kind |-> "returned", value |-> "None",
                  suppressed |-> suppressed]
          [] OTHER ->
                 IF is_tty(stdout)
                 THEN [kind |-> "returned", value |-> "None",
                       suppressed |-> suppressed]
                 ELSE [kind |-> "raised", value |-> "Exception",
                       suppressed |-> suppressed]

\* load_image_support(): lru_cache(maxsize=1) answers from its cache when
\* an earlier call has returned, and runs the body otherwise.
load_image_support ==
    /\ loader.calls < MaxCalls
    /\ loader' =
           IF loader.cached # None
           THEN [loader EXCEPT !.calls = @ + 1,
                               !.outcome = [kind |-> "returned",
                                            value |-> Get(loader.cached),
                                            suppressed |-> FALSE]]
           ELSE LET out == LoadOutcome(loader.stdout, loader.module)
                IN  [loader EXCEPT !.calls = @ + 1, !.imports = @ + 1,
                                   !.outcome = out,
                                   !.cached = IF out.kind = "returned"
                                              THEN Some(out.value) ELSE @]
    /\ UNCHANGED <<image_vars, markdown, tree, paragraph>>

\* load_image_support.cache_clear()
cache_clear ==
    /\ loader.cached # None
    /\ loader' = [loader EXCEPT !.cached = None]
    /\ UNCHANGED <<image_vars, markdown, tree, paragraph>>

NextLoader ==
    \/ load_image_support
    \/ cache_clear
SpecLoader == InitLoader /\ [][NextLoader]_vars

(***************************************************************************)
(* FilteredDirectoryTree.filter_paths                                      *)
(***************************************************************************)
MaxPaths == 3
MaxChildren == 5

\* A directory entry: its name, as the text between its dots and the dots,
\* and what the file system says of it: "dir", "file", "missing", or
\* "denied" when looking at it raises PermissionError.
Entry(name, kind) == [name |-> name, kind |-> kind]
Entries == {
    Entry(<<"docs">>, "dir"),
    Entry(<<".", "git">>, "dir"),
    Entry(<<"readme", ".", "md">>, "file"),
    Entry(<<"README", ".", "MD">>, "file"),
    Entry(<<".", "notes", ".", "md">>, "file"),
    Entry(<<"a", ".", "png">>, "file"),
    Entry(<<"ghost", ".", "md">>, "missing"),
    Entry(<<"locked", ".", "md">>, "denied") }

\* The lists of paths filter_paths is called with.
RECURSIVE ListsOf(_, _)
ListsOf(S, n) ==
    IF n = 0 THEN { << >> }
    ELSE ListsOf(S, n - 1)
         \cup { Append(l, e) : l \in {m \in ListsOf(S, n - 1) : Len(m) = n - 1},
                               e \in S }
PathLists == ListsOf(Entries, MaxPaths)

InitTree ==
    /\ InitImages
    /\ markdown = NewMarkdown
    /\ loader = NewLoader
    /\ paragraph = NewParagraph(<< >>)
    /\ tree \in {[NewTree EXCEPT !.paths = paths] : paths \in PathLists}

\* path.name.startswith(".")
startswith_dot(name) == Len(name) > 0 /\ name[1] = "."

\* The last dot of a name (0 when there is none).
RECURSIVE rfind_dot(_, _)
rfind_dot(name, i) ==
    IF i = 0 THEN 0
    ELSE IF name[i] = "." THEN i ELSE rfind_dot(name, i - 1)

\* PurePath.suffix: the name from its last dot on, when that dot is neither
\* the first nor the last character of the name.
path_suffix(name) ==
    LET i == rfind_dot(name, Len(name))
    IN  IF 1 < i /\ i < Len(name) THEN SubSeq(name, i, Len(name)) ELSE << >>

\* str.lower()
lower(tok) ==
    CASE tok = "MD" -> "md"
      [] tok = "README" -> "readme"
      [] OTHER -> tok

\* load_config().markdown_extensions
markdown_extensions == { <<".", "md">>, <<".", "markdown">> }

\* maybe_markdown(path): resource.suffix.lower() in the extensions.
maybe_markdown(name) ==
    [i \in 1..Len(path_suffix(name)) |-> lower(path_suffix(name)[i])]
        \in markdown_extensions

\* Path.is_dir() and Path.is_file(): "raise" stands for PermissionError.
path_is_dir(entry) ==
    IF entry.kind = "denied" THEN "raise"
    ELSE IF entry.kind = "dir" THEN "true" ELSE "false"
path_is_file(entry) ==
    IF entry.kind = "denied" THEN "raise"
    ELSE IF entry.kind = "file" THEN "true" ELSE "false"

\* The condition of the comprehension, evaluated as Python does:
\* (not hidden and is_dir()) or (is_file() and maybe_markdown(path)).
Keeps(entry) ==
    LET left == IF startswith_dot(entry.name) THEN "false"
                ELSE path_is_dir(entry)
    IN  IF left # "false" THEN left
        ELSE IF path_is_file(entry) = "raise" THEN "raise"
        ELSE IF path_is_file(entry) = "true" /\ maybe_markdown(entry.name)
        THEN "true" ELSE "false"

\* The list comprehension; PermissionError from any path gives [].
FilterList(paths) ==
    IF \E i \in 1..Len(paths) : Keeps(paths[i]) = "raise" THEN << >>
    ELSE SelectSeq(paths, LAMBDA entry : Keeps(entry) = "true")

\* filter_paths(paths)
filter_paths ==
    /\ tree.calls = 0
    /\ tree' = [tree EXCEPT !.calls = 1,
                            !.result = FilterList(tree.paths),
                            !.last_filter_result = FilterList(tree.paths)]
    /\ UNCHANGED <<image_vars, markdown, loader, paragraph>>

NextTree == filter_paths
SpecTree == InitTree /\ [][NextTree]_vars

(***************************************************************************)
(* ImageMarkdownParagraph.build_from_token                                 *)
(***************************************************************************)

\* The attributes of a child token: per key None when the key is missing,
\* else Some(value).
Attrs(href, src, alt, title) ==
    [href |-> href, src |-> src, alt |-> alt, title |-> title]
NoAttrs == Attrs(None, None, None, None)

\* A child of an inline token.
Child(type, content, attrs) ==
    [type |-> type, content |-> content, attrs |-> attrs]

\* The children that neither open nor close a span: text, text with no
\* content (the parser leaves such tokens where it has taken delimiters
\* away), inline code, an image with an alt text and a title, and an image
\* with an empty alt text.
LeafChildren ==
    { Child("text", "a", NoAttrs),
      Child("text", "", NoAttrs),
      Child("code_inline", "x", NoAttrs),
      Child("image", "", Attrs(None, Some("a.png"), Some("cat"), Some("t"))),
      Child("image", "", Attrs(None, Some("b.png"), Some(""), None)) }

\* The spans, and the tokens that open and close them.
Spans == {"em", "strong", "s", "link"}
OpenChild(span) ==
    CASE span = "em" -> Child("em_open", "", NoAttrs)
      [] span = "strong" -> Child("strong_open", "", NoAttrs)
      [] span = "s" -> Child("s_open", "", NoAttrs)
      [] span = "link" ->
             Child("link_open", "", Attrs(Some("u"), None, None, None))
CloseChild(span) ==
    CASE span = "em" -> Child("em_close", "", NoAttrs)
      [] span = "strong" -> Child("strong_close", "", NoAttrs)
      [] span = "s" -> Child("s_close", "", NoAttrs)
      [] span = "link" -> Child("link_close", "", NoAttrs)

\* The well-nested child sequences of at most n tokens that close the
\* spans `open`, innermost last: what the parser gives for the children of
\* an inline token.  A link does not lie within a link.
RECURSIVE InlineStreams(_, _)
InlineStreams(n, open) ==
    (IF open = << >> THEN { << >> } ELSE {})
    \cup
    (IF n = 0 \/ Len(open) > n THEN {}
     ELSE { << c >> \o rest :
                c \in LeafChildren, rest \in InlineStreams(n - 1, open) }
          \cup UNION { { << OpenChild(span) >> \o rest :
                             rest \in InlineStreams(n - 1,
                                                    Append(open, span)) } :
                       span \in { sp \in Spans :
                                    sp = "link"
                                    => \A i \in DOMAIN open :
                                           open[i] # "link" } }
          \cup (IF open = << >> THEN {}
                ELSE { << CloseChild(open[Len(open)]) >> \o rest :
                           rest \in InlineStreams(
                                        n - 1,
                                        SubSeq(open, 1, Len(open) - 1)) }))

InitInline ==
    /\ InitImages
    /\ markdown = NewMarkdown
    /\ loader = NewLoader
    /\ tree = NewTree
    /\ paragraph \in { NewParagraph(stream) :
                          stream \in InlineStreams(MaxChildren, << >>) }

\* child.attrs.get(key, default)
attrs_get(attrs, key, default) ==
    IF attrs[key] = None THEN default ELSE attrs[key]

\* attr_as_str(value): the string, "" for None.
attr_as_str(value) == IF value = None THEN "" ELSE Get(value)

\* Style(): no fragment; `style + fragment`: the fragments in turn.
Style == << >>
Fragment(name, arg) == [name |-> name, arg |-> arg]

\* content.append(text, style): nothing for the empty string.
text_append(content, text, style) ==
    IF text = << >> THEN content
    ELSE Append(content, [text |-> text, style |-> style])

\* A string as the pieces it is formatted from.
Pieces(string) == IF string = "" THEN << >> ELSE << string >>

\* style_stack.append(style_stack[-1] + fragment)
push_style(loc, fragment) ==
    [loc EXCEPT !.style_stack =
        Append(@, Append(loc.style_stack[Len(loc.style_stack)], fragment))]

\* MarkdownImage(...)
MarkdownImage(source, alt_text, title, style, link_href) ==
    [source |-> source, alt_text |-> alt_text, title |-> title,
     style |-> style, link_href |-> link_href]

\* The truth value of attrs.get(key): false for None and for "".
truthy(value) == value # None /\ Get(value) # ""

\* child.attrs.get("alt") or child.attrs.get("src") or "image"
image_caption(attrs) ==
    IF truthy(attrs.alt) THEN Get(attrs.alt)
    ELSE IF truthy(attrs.src) THEN Get(attrs.src)
    ELSE "image"

\* The image branch with the caption appended whatever came before.
on_image_captioned(loc, child) ==
    LET style == loc.style_stack[Len(loc.style_stack)]
        made == MarkdownImage(
                    attr_as_str(attrs_get(child.attrs, "src", Some(""))),
                    attr_as_str(attrs_get(child.attrs, "alt", Some(""))),
                    attr_as_str(attrs_get(child.attrs, "title", Some(""))),
                    style, loc.link_stack[Len(loc.link_stack)])
    IN  [loc EXCEPT
            !.blocks = Append(@, made),
            !.content = text_append(@, << " [", image_caption(child.attrs), "]" >>,
                                    style)]

\* The image branch: a MarkdownImage with the style and the link on top of
\* the stacks is appended to _blocks, and a caption to the content when
\* has_non_image_text is set.
on_image(loc, child) ==
    LET style == loc.style_stack[Len(loc.style_stack)]
        made == MarkdownImage(
                    attr_as_str(attrs_get(child.attrs, "src", Some(""))),
                    attr_as_str(attrs_get(child.attrs, "alt", Some(""))),
                    attr_as_str(attrs_get(child.attrs, "title", Some(""))),
                    style, loc.link_stack[Len(loc.link_stack)])
    IN  [loc EXCEPT
            !.blocks = Append(@, made),
            !.content =
                IF loc.has_non_image_text
                THEN text_append(@, << " [", image_caption(child.attrs), "]" >>,
                                 style)
                ELSE @]

\* The link_close branch that leaves the link stack as it is.
on_link_close_style(loc) ==
    [loc EXCEPT !.style_stack = SubSeq(@, 1, Len(@) - 1)]

\* The link_close branch: both stacks are popped.
on_link_close(loc) ==
    [loc EXCEPT !.style_stack = SubSeq(@, 1, Len(@) - 1),
                !.link_stack = SubSeq(@, 1, Len(@) - 1)]

\* child_type.endswith("_close"), for the types that reach that branch.
IsClose(type) == type \in {"em_close", "strong_close", "s_close"}

\* The body of the loop over the children, for one child.
on_child(loc, child) ==
    LET style == loc.style_stack[Len(loc.style_stack)]
    IN  CASE child.type = "text" ->
                 [loc EXCEPT
                     !.content = text_append(@, Pieces(child.content), style),
                     !.has_non_image_text = TRUE]
          [] child.type = "hardbreak" ->
                 [loc EXCEPT !.content = text_append(@, << "\n" >>, Style),
                             !.has_non_image_text = TRUE]
          [] child.type = "softbreak" ->
                 [loc EXCEPT !.content = text_append(@, << " " >>, style),
                             !.has_non_image_text = TRUE]
          [] child.type = "code_inline" ->
                 [loc EXCEPT
                     !.content =
                         text_append(@, Pieces(child.content),
                                     Append(style,
                                            Fragment("code_inline", ""))),
                     !.has_non_image_text = TRUE]
          [] child.type = "em_open" -> push_style(loc, Fragment("em", ""))
          [] child.type = "strong_open" ->
                 push_style(loc, Fragment("strong", ""))
          [] child.type = "s_open" -> push_style(loc, Fragment("s", ""))
          [] child.type = "link_open" ->
                 LET href == attrs_get(child.attrs, "href", Some(""))
                 IN  [push_style(loc, Fragment("@click", Get(href)))
                         EXCEPT !.link_stack = Append(@, href)]
          [] child.type = "image" -> on_image(loc, child)
          [] child.type = "link_close" -> on_link_close(loc)
          [] IsClose(child.type) ->
                 [loc EXCEPT !.style_stack = SubSeq(@, 1, Len(@) - 1)]
          [] OTHER ->
                 IF child.content # ""
                 THEN [loc EXCEPT
                          !.content = text_append(@, Pieces(child.content),
                                                  style),
                          !.has_non_image_text = TRUE]
                 ELSE loc

\* build_from_token is called: the stacks are seeded with Style() and None.
build_from_token_called ==
    /\ paragraph.pc = "new"
    /\ paragraph' = [paragraph EXCEPT !.pc = "loop",
                                      !.style_stack = << Style >>,
                                      !.link_stack = << None >>,
                                      !.content = << >>,
                                      !.has_non_image_text = FALSE]
    /\ UNCHANGED <<image_vars, markdown, loader, tree>>

\* One turn of the loop of build_from_token.
build_from_token_child ==
    /\ paragraph.pc = "loop"
    /\ paragraph.at <= Len(paragraph.children)
    /\ paragraph' = [on_child(paragraph, paragraph.children[paragraph.at])
                        EXCEPT !.at = @ + 1]
    /\ UNCHANGED <<image_vars, markdown, loader, tree>>

\* The end of build_from_token: the content is dropped when the paragraph
\* has images and no other text, and set_content is called.
build_from_token_done ==
    /\ paragraph.pc = "loop"
    /\ paragraph.at > Len(paragraph.children)
    /\ paragraph' =
           [paragraph EXCEPT
               !.pc = "done",
               !.text = IF ~paragraph.has_non_image_text
                           /\ paragraph.blocks # << >>
                        THEN << >> ELSE paragraph.content]
    /\ UNCHANGED <<image_vars, markdown, loader, tree>>

NextInline ==
    \/ build_from_token_called
    \/ build_from_token_child
    \/ build_from_token_done
SpecInline == InitInline /\ [][NextInline]_vars

(***************************************************************************)
(* Properties.                                                             *)
(***************************************************************************)
\* resolve(source) is called in this step (and returns, raises or suspends).
Called == event.kind \in {"returned", "raised", "suspended"}
             /\ event.resp.kind = "none"
\* A resolve call returns in this step.
Returns == event.kind = "returned"
\* A resolve call returns in this step from the local path.
ReturnsLocal == Returns /\ ~event.remote /\ ~IsEmptySource(event.source)
\* A resolve call returns in this step after the answer to its GET.
ReturnsFetched == Returns /\ event.resp.kind # "none"

Contains(msg, tok) == \E i \in 1..Len(msg) : msg[i] = tok

\* The file or directory a local reference denotes: the reference taken
\* relative to the base directory (the working directory when none is set)
\* and looked up by the operating system.  None when there is none.
TargetOf(source, bpath) ==
    Locate(PathJoin(IF IsNone(bpath) THEN MkPath(TRUE, Cwd) ELSE Get(bpath),
                    PathOf(source)))

\* C1: resolve never raises an exception to its caller, whatever the source,
\* the base location and the transport's behaviour.
C1_NeverRaises == event.kind # "raised"

\* C2: once a Success for a URL has been returned, every later resolve of a
\* reference with the same absolute URL string returns the bytes of that
\* (first) Success, without a GET and without going for a client.
C2_IdenticalBytes ==
    /\ Returns /\ event.remote /\ event.after
       => /\ event.result.payload = BytesPayload(first[event.key])
          /\ event.result.error = None
          /\ event.resp.kind = "none"
    /\ \A t \in Tasks : pc[t] # "idle" => ~call[t].after

\* C2, amended: such a later resolve returns the bytes of the latest
\* successful fetch of that URL, without a GET and without going for a
\* client; a call that started after a Success for its URL is never found
\* waiting for the lock or for a GET.
C2_LatestBytes ==
    /\ Returns /\ event.remote /\ event.after
       => /\ event.result.payload = BytesPayload(last[event.key])
          /\ event.result.error = None
          /\ event.resp.kind = "none"
    /\ \A t \in Tasks : pc[t] # "idle" => ~call[t].after

\* A later resolve, through the relative form of the URL, returns bytes that
\* are not those of the first Success.
C2_Witness ==
    /\ Returns /\ event.remote /\ event.after
    /\ event.source = <<"img", "/", "a.png">>
    /\ first[event.key] # last[event.key]

\* C3: a non-empty local reference whose target exists is resolved to a
\* Success: no error, and a path payload that denotes the target and whose
\* string is the location reported.
C3_LocalFound ==
    ReturnsLocal /\ ~IsNone(TargetOf(event.source, base_path))
    => /\ event.result.error = None
       /\ event.result.payload.kind = "path"
       /\ event.result.location = PathStr(event.result.payload.path)
       /\ Locate(event.result.payload.path) = TargetOf(event.source, base_path)

\* A relative reference is found under the base directory.
C3_Witness ==
    /\ ReturnsLocal
    /\ event.source = <<"img", "/", "a.png">>
    /\ base_path = Some(MkPath(TRUE, <<"docs">>))
    /\ event.result.payload.kind = "path"

\* C4: a non-empty local reference whose target does not exist is resolved
\* to a Failure without payload, with the error "Image file not found" and
\* with the normalized path that was checked as location (absolute, no ".."
\* left in it); no GET is made.
C4_LocalMissing ==
    ReturnsLocal /\ IsNone(TargetOf(event.source, base_path))
    => /\ event.result.payload = NoPayload
       /\ event.result.error = Some(<<"Image file not found">>)
       /\ event.result.location[1] = "/"
       /\ ~Contains(event.result.location, "..")
       /\ event.resp.kind = "none"

\* C5: resolve("") returns a Failure without payload whose error is "Empty
\* image source", in every state of the resolver.
C5_EmptySource ==
    Called /\ event.source = <<>>
    => /\ Returns
       /\ event.result.payload = NoPayload
       /\ event.result.error = Some(<<"Empty image source">>)

\* resolve("") with a base URL set, a client created and the cache filled.
C5_Witness ==
    /\ Called /\ event.source = <<>>
    /\ ~IsNone(base_url)
    /\ client # 0
    /\ DOMAIN cache # {}

\* C6: after a cache miss, a GET answered with an error status gives a
\* Failure without payload whose error contains the status code, a transport
\* error gives a Failure without payload whose error is the transport
\* error's message; the location is the resolved URL in both cases.
C6_FetchFailures ==
    ReturnsFetched /\ ~(event.resp.kind = "response" /\ is_success(event.resp))
    => /\ event.result.payload = NoPayload
       /\ event.result.location = event.key
       /\ ~IsNone(event.result.error)
       /\ event.resp.kind = "response"
          => Contains(Get(event.result.error), ToString(event.resp.status))
       /\ event.resp.kind = "error"
          => Get(event.result.error) = event.resp.msg

\* A GET is answered with 404.
C6_Witness ==
    /\ ReturnsFetched
    /\ event.resp.kind = "response" /\ event.resp.status = 404
    /\ Contains(Get(event.result.error), "404")

\* C7: every result resolve returns has exactly one of a payload and a
\* non-empty error.
C7_ExactlyOne ==
    Returns => ((event.result.payload # NoPayload) # Truthy(event.result.error))

\* C8: the resolver never has both a base directory and a base URL; a Path
\* location clears the base URL, a URL location clears the base directory
\* and None clears both.
C8_BaseExclusive ==
    /\ IsNone(base_path) \/ IsNone(base_url)
    /\ event.kind = "updated"
       => /\ event.loc.kind = "path" => ~IsNone(base_path) /\ IsNone(base_url)
          /\ event.loc.kind = "url"
             => IsNone(base_path) /\ base_url = Some(event.loc.url)
          /\ event.loc.kind = "none" => IsNone(base_path) /\ IsNone(base_url)

\* update_location is given a Path while a resolve call that was classified
\* as remote is waiting for its GET.
C8_Witness ==
    /\ event.kind = "updated" /\ event.loc.kind = "path"
    /\ pc[1] = "fetching"
    /\ call[1].key = <<"https:", "//", "h", "/", "a.png">>

\* C9: after update_location(p) for a Path p, the base directory is p when p
\* is a directory, whatever its name, and the parent of p when p is
\* file-like (a file, or not a directory and named with a suffix).
C9_BaseDirectory ==
    event.kind = "updated" /\ event.loc.kind = "path"
    => /\ Stat(event.loc.path) = "dir" => base_path = Some(event.loc.path)
       /\ Stat(event.loc.path) = "file"
          \/ (Stat(event.loc.path) = "none" /\ suffix(event.loc.path) # "")
          => base_path = Some(parent(event.loc.path))

\* The references C10 is about: no explicit scheme, and joined against the
\* base URL they give an http or https URL.
JoinsRemote(source, burl) ==
    /\ ~IsEmptySource(source)
    /\ ParseURL(source).ok /\ ParseURL(source).scheme = ""
    /\ ~IsNone(burl)
    /\ JoinURL(Get(burl), source).scheme \in {"http", "https"}

C10_AtCall ==
    /\ Called /\ JoinsRemote(event.source, base_url)
       => /\ event.remote
          /\ event.key = Str(JoinURL(Get(base_url), event.source))
          /\ Returns => event.result.location = event.key
          /\ event.kind = "suspended" => call[event.task].key = event.key
    /\ Called /\ event.source = <<"img", "/", "a.png">>
              /\ base_url = Some(ParseURL(
                     <<"https:", "//", "h", "/", "docs", "/", "readme.md">>))
       => event.key = <<"https:", "//", "h", "/", "docs", "/", "img", "/", "a.png">>
C10_AtReturn ==
    ReturnsFetched
    => /\ event.result.location = event.key
       /\ HasBytes(event.result)
          => /\ event.key \in DOMAIN cache
             /\ cache[event.key] = event.result.payload.data
C10_KeyKept ==
    \A t \in Tasks :
        /\ pc[t] # "idle" /\ pc'[t] # "idle" => call'[t].key = call[t].key
        /\ pc[t] = "fetching" /\ pc'[t] = "idle"
           => /\ event'.key = call[t].key
              /\ \A k \in DOMAIN cache' :
                     k # call[t].key => k \in DOMAIN cache /\ cache'[k] = cache[k]

\* C10: with a base URL set, a reference without a scheme is joined against
\* it and, when the result is http or https, is fetched with the joined URL
\* as the key of the call, as the only cache key written and as the location
\* reported; "img/a.png" against https://h/docs/readme.md gives
\* https://h/docs/img/a.png.
C10_Joined == [](C10_AtCall /\ C10_AtReturn) /\ [][C10_KeyKept]_vars

\* resolve("img/a.png") under https://h/docs/readme.md goes for the GET.
C10_Witness ==
    /\ event.kind = "suspended"
    /\ event.source = <<"img", "/", "a.png">>
    /\ call[event.task].key =
           <<"https:", "//", "h", "/", "docs", "/", "img", "/", "a.png">>

\* The references C11 is about: they parse as a URL with an explicit scheme
\* that is neither http nor https.
OtherScheme(source) ==
    /\ ParseURL(source).ok
    /\ ParseURL(source).scheme \notin {"", "http", "https"}

\* C11: a reference with an explicit scheme other than http or https is
\* resolved without a GET and without a client being constructed, with or
\* without a base URL, and gives a Failure with a "not found" message.
C11_OtherSchemeFails ==
    Called /\ OtherScheme(event.source)
    => /\ Returns /\ ~event.remote
       /\ \A t \in Tasks : pc[t] = "idle" => call[t] = NoCall
       /\ event.result.payload = NoPayload
       /\ event.result.error = Some(<<"Image file not found">>)

\* C12: the path a local reference is looked up at and reported with is
\* normalized: absolute, without ".." segments, and with a leading "~"
\* replaced by the home directory.
C12_Normalized ==
    ReturnsLocal
    => /\ event.result.location[1] = "/"
       /\ ~Contains(event.result.location, "..")
       /\ event.source[1] = "~"
          => event.result.location
             = PathStr(MkPath(TRUE, Home \o Tail(PathOf(event.source).parts)))

\* C13: resolve calls for uncached remote references that run concurrently
\* invoke the client factory once: it is invoked only when there is no
\* client, the client it gives becomes the resolver's client, every caller
\* that goes on to its GET holds the resolver's client, and a client is
\* dropped by nothing but a close.
C13_Step ==
    /\ created' # created
       => client = 0 /\ created' = created + 1 /\ client' = created'
    /\ \A t \in Tasks :
           pc[t] # "fetching" /\ pc'[t] = "fetching"
           => call'[t].client = client' /\ client' # 0
    /\ client # 0 /\ client' # client => closer = "closing" /\ client' = 0
C13_OneFactoryCall == [][C13_Step]_vars

\* Two resolve calls wait for their GETs with the one client ever created.
C13_Witness ==
    /\ pc[1] = "fetching" /\ pc[2] = "fetching"
    /\ created = 1
    /\ call[1].client = 1 /\ call[2].client = 1

\* C14: over the whole life of a resolver, whatever is called on it, the
\* client factory is invoked at most once.
C14_CreatedOnce == created <= 1

\* C15: close when there is no client returns without closing anything and
\* leaves the resolver as it was; close when there is one closes it, once:
\* the client closed is the resolver's client, which the resolver has
\* dropped when the call returns, so a close right after it finds none.
C15_Step ==
    /\ closer # "closing" /\ closer' = "closing"
       => client # 0 /\ client' = client
    /\ event'.kind = "closed"
       => /\ event'.client = client
          /\ client' = 0 /\ closer' = "idle" /\ lock' = "free"
          /\ UNCHANGED <<base_path, base_url, cache, pc, call, created>>
          /\ client = 0 => lock' = lock /\ closer # "closing"
C15_CloseIdempotent == [][C15_Step]_vars

\* A close that finds no client returns on a resolver that has had one.
C15_Witness ==
    /\ event.kind = "closed" /\ event.client = 0
    /\ created > 0

\* C16, at the call: the call is classified from the base location of the
\* step it is made in: a call that suspends has made its key from the base
\* URL of that step, a local call is answered from the base directory of
\* that step.
C16_AtCall ==
    /\ Called => event.base = base_url
    /\ event.kind = "suspended"
       => /\ pc[event.task] # "idle"
          /\ call[event.task].key = Str(coerce_url(event.source, base_url).url)
          /\ event.key = call[event.task].key
    /\ ReturnsLocal => event.result = resolve_local(event.source, base_path)
\* C16, while in flight: whatever happens to the base location, the key of
\* the call stays, and it is the key fetched, stored and reported.
C16_InFlight ==
    \A t \in Tasks :
        pc[t] # "idle"
        => /\ pc'[t] # "idle" => call'[t].key = call[t].key
           /\ pc'[t] = "idle" /\ event'.kind = "returned"
              => /\ event'.key = call[t].key
                 /\ event'.result.location = call[t].key
                 /\ HasBytes(event'.result)
                    => /\ call[t].key \in DOMAIN cache'
                       /\ cache'[call[t].key] = event'.result.payload.data

\* C16: a resolve call reads the base location once, before it first
\* suspends: an update_location during the call changes neither its
\* classification nor its key, the URL fetched or the location reported.
C16_BaseReadOnce == []C16_AtCall /\ [][C16_InFlight]_vars

\* A call that made its key by joining "/docs/../a.png" against the base URL
\* returns after the base was replaced by a base directory.
C16_Witness ==
    /\ ReturnsFetched
    /\ event.key = <<"https:", "//", "h", "/", "a.png">>
    /\ IsNone(base_url)
    /\ base_path = Some(MkPath(TRUE, <<"docs">>))
    /\ event.result.location = <<"https:", "//", "h", "/", "a.png">>

\* C17: a block mounted without the image capability is Failed with the
\* fixed message at once: no load task is created, resolve is not called
\* for it and no renderer is mounted, then or later.
C17_NoCapability ==
    \A t \in Tasks :
        block[t].state # "new" /\ ~block[t].support
        => /\ block[t].last_error
              = Some(<<"Inline images require textual-image">>)
           /\ ~block[t].load_task
           /\ block[t].task = "none"
           /\ ~block[t].image_widget
           /\ pc[t] = "idle" /\ call[t] = NoCall

\* A block without the capability has been mounted and unmounted next to a
\* block that has its renderer.
C17_Witness ==
    /\ block[1].state = "unmounted" /\ ~block[1].support
    /\ block[2].image_widget

\* C18, the steps: an unmount while resolve is pending ends the call and the
\* task at once, with no error and no renderer; a cancelled task never moves
\* its block again.
C18_Step ==
    \A t \in Tasks :
        /\ block[t].state = "mounted" /\ block'[t].state = "unmounted"
              /\ block[t].task = "resolving"
           => /\ block'[t].task = "cancelled"
              /\ pc'[t] = "idle"
              /\ block'[t].last_error = None
              /\ ~block'[t].image_widget
        /\ block[t].task = "cancelled" => block'[t] = block[t]

\* C18: a block unmounted while its resolve call is pending stays Loading:
\* its error stays absent and its renderer stays absent ever after.
C18_StaysLoading ==
    /\ [](\A t \in Tasks : block[t].task = "cancelled"
              => /\ block[t].last_error = None
                 /\ ~block[t].image_widget
                 /\ pc[t] = "idle")
    /\ [][C18_Step]_vars

\* The resolve call of a block is cancelled by the unmount while suspended.
C18_Witness ==
    /\ event.kind = "cancelled"
    /\ block[event.task].state = "unmounted"
    /\ block[event.task].task = "cancelled"
    /\ lock = "free"

\* C19: whenever a block is unmounted while its load task has started and
\* not finished, the block holds the handle and the task is cancelled; no
\* step of the task runs after the unmount.
C19_Step ==
    \A t \in Tasks :
        /\ block[t].state = "mounted" /\ block'[t].state = "unmounted"
              /\ block[t].task \in {"scheduled", "resolving", "mounting"}
           => block[t].load_task /\ block'[t].task = "cancelled"
        /\ block[t].state = "unmounted" => block'[t].task = block[t].task
C19_TaskCancelled == [][C19_Step]_vars

\* C20, the lock: it is held only by a close that is closing the client,
\* and those in line for it are exactly the calls suspended for it and a
\* close that waits: whoever is first in line can take it once it is free.
C20_LockSound ==
    /\ lock = "aclose" <=> closer = "closing"
    /\ \A i \in 1..Len(waiters) :
           IF waiters[i] = 0 THEN closer = "wait"
           ELSE pc[waiters[i]] = "wait_lock"
    /\ \A t \in Tasks :
           pc[t] = "wait_lock" => \E i \in 1..Len(waiters) : waiters[i] = t
\* C20, the step that cancels a call: base location, cache, client and lock
\* stay, the other calls stay, the cancelled call leaves the line.
C20_Step ==
    event'.kind = "cancelled"
    => /\ UNCHANGED <<base_path, base_url, cache, client, created, lock, closer>>
       /\ pc[event'.task] # "idle" /\ pc'[event'.task] = "idle"
       /\ waiters' = Remove(waiters, event'.task)
       /\ \A u \in Tasks \ {event'.task} :
              pc'[u] = pc[u] /\ call'[u] = call[u]

\* C20: cancelling a pending load at a suspension point of resolve leaves
\* the resolver as it was but for the cancelled call, the lock not held and
\* the others in line able to go on.
C20_ResolverKept == []C20_LockSound /\ [][C20_Step]_vars

\* A call is cancelled while it waits for the lock, with another call in
\* line behind it.
C20_Witness ==
    /\ event.kind = "cancelled"
    /\ lock = "aclose"
    /\ \E u \in Tasks : pc[u] = "wait_lock"

\* The load task of block t gets the outcome of its resolve call in this
\* step and handles it: event' is that outcome.
LoadEnds(t) ==
    /\ block[t].task \in {"scheduled", "resolving"}
    /\ block'[t].task \in {"done", "mounting", "crashed"}

\* The text a block shows for a failure: the caption, then the reason in
\* parentheses.
Parenthesized(caption, reason) == caption \o <<" (">> \o reason \o <<")">>

\* The caption of a block: its alt text, else its title, else its source.
CaptionOf(b) ==
    IF b.alt_text # <<>> THEN b.alt_text
    ELSE IF b.title # <<>> THEN b.title ELSE b.source

\* The phase of a block.
Phase(b) ==
    IF b.state = "new" THEN "Unstarted"
    ELSE IF b.image_widget THEN "Resolved"
    ELSE IF b.last_error # None THEN "Failed"
    ELSE "Loading"

\* C21: no exception leaves the load task of a block: a load task that has
\* ended has left its block with a renderer or Failed with a message.
C21_ExceptionsCaught ==
    \A t \in Tasks :
        /\ block[t].task # "crashed"
        /\ block[t].task = "done"
           => block[t].image_widget \/ block[t].last_error # None

\* C22: an outcome without a payload leaves the block Failed with
\* a non-empty error (the outcome's, when that is non-empty), no renderer,
\* and the caption followed by the error in parentheses; the other blocks
\* stay as they are.
C22_Step ==
    \A t \in Tasks :
        LoadEnds(t) /\ event'.kind = "returned"
                    /\ event'.result.payload.kind = "none"
        => /\ block'[t].last_error # None
           /\ Get(block'[t].last_error) # <<>>
           /\ Truthy(event'.result.error)
              => block'[t].last_error = event'.result.error
           /\ ~block'[t].image_widget
           /\ block'[t].task = "done"
           /\ block'[t].content
              = Parenthesized(CaptionOf(block[t]), Get(block'[t].last_error))
           /\ \A u \in Tasks \ {t} : block'[u] = block[u]
C22_StepAmended ==
    \A t \in Tasks :
        LoadEnds(t) /\ event'.kind = "returned"
                    /\ event'.result.payload.kind = "none"
        => /\ block'[t].last_error # None
           /\ Get(block'[t].last_error) # <<>>
           /\ Truthy(event'.result.error)
              => block'[t].last_error = event'.result.error
           /\ ~block'[t].image_widget
           /\ block'[t].task = "done"
           /\ block'[t].content
              = IF CaptionOf(block[t]) # <<>>
                THEN Parenthesized(CaptionOf(block[t]),
                                   Get(block'[t].last_error))
                ELSE Get(block'[t].last_error)
           /\ \A u \in Tasks \ {t} : block'[u] = block[u]
C23_Step ==
    \A t \in Tasks :
        LoadEnds(t) /\ event'.kind = "returned"
                    /\ event'.result.payload.kind # "none"
                    /\ ~Truthy(event'.result.error)
                    /\ block[t].support
        => /\ Phase(block'[t]) = "Resolved"
           /\ block'[t].last_error = None
           /\ block'[t].content = <<>>
           /\ block'[t].image_widget
           /\ block'[t].widget_payload = event'.result.payload
           /\ block'[t].tooltip = Some(event'.result.location)
C23_Resolved == [][C23_Step]_vars

\* C24, the steps: the phase stays, or moves from Unstarted to Loading or
\* Failed, or from Loading to Resolved or Failed; resolve is called for a
\* block only by its load task when that first runs, and the task never
\* returns to that point.
C24_Step ==
    \A t \in Tasks :
        /\ \/ Phase(block'[t]) = Phase(block[t])
           \/ /\ Phase(block[t]) = "Unstarted"
              /\ Phase(block'[t]) \in {"Loading", "Failed"}
           \/ /\ Phase(block[t]) = "Loading"
              /\ Phase(block'[t]) \in {"Resolved", "Failed"}
        /\ Phase(block[t]) = "Unstarted" /\ Phase(block'[t]) = "Failed"
           => ~block'[t].support
        /\ pc[t] = "idle" /\ (pc'[t] # "idle" \/ LoadEnds(t))
           => block[t].task = "scheduled"
        /\ block[t].task # "none" => block'[t].task # "none"
        /\ block[t].task \notin {"none", "scheduled"}
           => block'[t].task # "scheduled"

\* C24: the phase of a block only moves Unstarted -> Loading -> Resolved or
\* Failed (or Unstarted -> Failed without the capability); Resolved and
\* Failed are never left, a block never has both a renderer and an error,
\* and resolve is called at most once for a block.
C24_Phases ==
    /\ [](\A t \in Tasks : ~(block[t].image_widget
                              /\ block[t].last_error # None))
    /\ [][C24_Step]_vars

\* One block is Resolved and mounted, the other Failed after its load.
C24_Witness ==
    \E t, u \in Tasks :
        /\ Phase(block[t]) = "Resolved" /\ block[t].task = "done"
        /\ Phase(block[u]) = "Failed" /\ block[u].task = "done"
        /\ block[u].support

\* C25, the steps: a resolve call that starts while no close is under way
\* and nobody is in line for the lock does not wait for it, whatever GETs
\* of other blocks are pending: it returns or issues its own GET.
C25_Step ==
    \A t \in Tasks :
        pc[t] = "idle" /\ block[t].task = "scheduled"
            /\ block'[t].task # "scheduled" /\ block'[t].state = "mounted"
            /\ closer = "idle" /\ waiters = << >>
        => /\ pc'[t] \in {"idle", "fetching"}
           /\ pc'[t] = "idle" => block'[t].task \in {"done", "mounting",
                                                      "crashed"}

\* C25: the lock is never held by a call whose GET is pending (only a close
\* holds it across a suspension), and while the GET of one block is pending
\* the resolve call of another starts and runs on without waiting for it.
C25_NoBlocking ==
    /\ [](lock \in {"free", "aclose"}
          /\ (lock = "aclose" => closer = "closing"))
    /\ [][C25_Step]_vars

\* While the GET of one block is pending, the resolve call of another has
\* started, fetched and returned.
C25_Witness ==
    /\ event.kind = "returned" /\ event.resp.kind = "response"
    /\ \E t, u \in Tasks :
           /\ t # u
           /\ pc[t] = "fetching"
           /\ block[u].task \in {"mounting", "crashed"}
           /\ block[u].state = "mounted"
    /\ lock = "free" /\ waiters = << >>

\* update is called in this step; markdown'.stream is its token stream.
Updates == markdown'.updates = markdown.updates + 1

\* The container a token opens or closes ("" when it does neither).
Opens(type) ==
    CASE type = "heading_open" -> "heading"
      [] type = "paragraph_open" -> "paragraph"
      [] type = "blockquote_open" -> "blockquote"
      [] type = "bullet_list_open" -> "bullet_list"
      [] type = "ordered_list_open" -> "ordered_list"
      [] type = "list_item_open" -> "list_item"
      [] type \in {"table_open", "thead_open", "tbody_open", "tr_open",
                   "th_open", "td_open"} -> "table"
      [] OTHER -> ""
Closes(type) ==
    CASE type = "heading_close" -> "heading"
      [] type = "paragraph_close" -> "paragraph"
      [] type = "blockquote_close" -> "blockquote"
      [] type = "bullet_list_close" -> "bullet_list"
      [] type = "ordered_list_close" -> "ordered_list"
      [] type = "list_item_close" -> "list_item"
      [] type \in {"table_close", "thead_close", "tbody_close", "tr_close",
                   "th_close", "td_close"} -> "table"
      [] OTHER -> ""

\* A token stream is balanced: every close token closes the container
\* opened last and not yet closed, and no container is open at the end.
RECURSIVE BalancedFrom(_, _, _)
BalancedFrom(stream, i, open) ==
    IF i > Len(stream) THEN open = << >>
    ELSE IF Opens(stream[i].type) # ""
    THEN BalancedFrom(stream, i + 1, Append(open, Opens(stream[i].type)))
    ELSE IF Closes(stream[i].type) # ""
    THEN /\ open # << >>
         /\ open[Len(open)] = Closes(stream[i].type)
         /\ BalancedFrom(stream, i + 1, SubSeq(open, 1, Len(open) - 1))
    ELSE BalancedFrom(stream, i + 1, open)
Balanced(stream) == BalancedFrom(stream, 1, << >>)

\* Where the headings of a stream open, in document order.
HeadingIndexes(stream) ==
    SelectSeq([i \in 1..Len(stream) |-> i],
              LAMBDA i : stream[i].type = "heading_open")

\* The heading blocks of a block sequence, in document order.
RECURSIVE HeadingsIn(_)
HeadingsIn(nodes) ==
    IF nodes = << >> THEN << >>
    ELSE (IF Head(nodes).kind = "heading" THEN << Head(nodes) >>
          ELSE HeadingsIn(Head(nodes).blocks)) \o HeadingsIn(Tail(nodes))

\* C26, the update step: on a balanced stream update does not raise, and
\* the table of contents it leaves and posts has one entry per heading of
\* that stream and no other, in document order: the level of the heading,
\* the content of the inline token that follows its open token, and the id
\* of its block; the ids differ from one another.
C26_Step ==
    Updates /\ Balanced(markdown'.stream)
    => LET stream == markdown'.stream
           toc == markdown'.table_of_contents
           at == HeadingIndexes(stream)
           task == markdown'.tasks[Len(markdown'.tasks)]
           blocks == HeadingsIn(task.output)
       IN  /\ markdown'.raised = ""
           /\ task.doc = markdown'.updates
           /\ Len(toc) = Len(at)
           /\ Len(blocks) = Len(at)
           /\ \A k \in 1..Len(at) :
                  toc[k] = << stream[at[k]].tag, stream[at[k] + 1].content,
                              blocks[k].id >>
           /\ \A k, l \in 1..Len(toc) : k # l => toc[k][3] # toc[l][3]
           /\ markdown'.posted[Len(markdown'.posted)]
              = [doc |-> markdown'.updates, toc |-> toc]

\* C26: after update on a balanced token stream with n headings the table
\* of contents has exactly n entries in document order, the i-th being
\* (level, text of the inline token, block id) of the i-th heading, with
\* pairwise distinct ids, and nothing of an earlier update call.
C26_TableOfContents == [][C26_Step]_vars

\* A second update, on a document with two headings, after a first one on
\* the document with one heading whose table of contents the host has.
C26_Witness ==
    /\ markdown.updates = 2 /\ markdown.stream = DocTwoHeadings
    /\ markdown.table_of_contents
       = << <<1, "Intro", 1>>, <<2, "Usage", 2>> >>
    /\ markdown.host_toc = [doc |-> 1, toc |-> << <<2, "Quoted", 1>> >>]

\* C27, the update step: on an unbalanced stream update raises and neither
\* posts a table of contents nor creates the coroutine that mounts blocks.
C27_Step ==
    Updates /\ ~Balanced(markdown'.stream)
    => /\ markdown'.raised # ""
       /\ markdown'.posted = markdown.posted
       /\ markdown'.tasks = markdown.tasks

\* C27: update on an unbalanced token stream (a close token with no open
\* container, or containers left open at the end) raises to its caller and
\* hands no block sequence to the host.
C27_UnbalancedFatal == [][C27_Step]_vars

\* C28: the host never has the table of contents of one update call while
\* blocks of another update call are mounted.
C28_AtomicHandOff ==
    \A i \in 1..Len(markdown.mounted) :
        markdown.host_toc.doc > 0
        => markdown.mounted[i].doc = markdown.host_toc.doc

\* C29: every call of load_image_support returns: an ImageSupport when the
\* module imports, None when it does not, whether it is not installed or its
\* import raises, and whether stdout is a terminal or not.
C29_NeverRaises ==
    loader.calls > 0
    => /\ loader.outcome.kind = "returned"
       /\ loader.outcome.value
          = IF loader.module = "installed" THEN "ImageSupport" ELSE "None"

\* A directory entry is hidden: its name starts with a dot.
Hidden(entry) == entry.name[1] = "."

\* A directory entry looks like a Markdown document: its name ends in .md or
\* .markdown, in any case.
LooksMarkdown(entry) ==
    /\ Len(entry.name) > 2
    /\ entry.name[Len(entry.name) - 1] = "."
    /\ entry.name[Len(entry.name)] \in {"md", "MD", "markdown"}

\* The entries a list should be filtered down to.
Wanted(entry) ==
    /\ ~Hidden(entry)
    /\ \/ entry.kind = "dir"
       \/ entry.kind = "file" /\ LooksMarkdown(entry)

\* C30: filter_paths returns, in the order given, exactly the paths that
\* are not hidden and are a directory or a file that looks like a Markdown
\* document, and the empty list when looking at a path raises
\* PermissionError.
C30_Filtered ==
    tree.calls > 0
    => /\ tree.result
          = IF \E i \in 1..Len(tree.paths) : tree.paths[i].kind = "denied"
            THEN << >>
            ELSE SelectSeq(tree.paths, Wanted)
       /\ \A i \in 1..Len(tree.result) : ~Hidden(tree.result[i])

\* C35, the steps: no step removes a key of the cache; the cache changes
\* only in the step in which a call gets a successful answer to its GET, and
\* then to hold the body of that answer under the key of that call; a
\* remote call is answered without a GET only when its key is in the cache.
C35_Step ==
    /\ \A k \in DOMAIN cache : k \in DOMAIN cache'
    /\ cache' # cache
       => \E t \in Tasks :
              /\ pc[t] = "fetching" /\ pc'[t] = "idle"
              /\ event'.kind = "returned"
              /\ event'.resp.kind = "response"
              /\ 200 <= event'.resp.status /\ event'.resp.status < 300
              /\ DOMAIN cache' = DOMAIN cache \cup {call[t].key}
              /\ cache'[call[t].key] = event'.resp.body
              /\ \A k \in DOMAIN cache \ {call[t].key} : cache'[k] = cache[k]
    /\ event'.kind = "returned" /\ event'.remote /\ event'.resp.kind = "none"
       => event'.key \in DOMAIN cache
    /\ event'.kind = "suspended" => event'.key \notin DOMAIN cache

\* C35: the cache changes only when a remote fetch succeeds, and then only
\* at the key of the fetched URL; update_location, close, empty, local and
\* cached resolves and failed fetches leave it as it is, no entry is ever
\* removed, and a URL whose fetch failed is fetched again.
C35_CacheFrame == [][C35_Step]_vars

\* A fetch has failed with a status while another URL is cached: its key is
\* still not in the cache.
C35_Witness ==
    /\ event.kind = "returned" /\ event.resp.kind = "response"
    /\ event.resp.status = 404
    /\ event.key \notin DOMAIN cache
    /\ DOMAIN cache # {}

\* C36, the steps: a call that gets a successful answer to its GET returns
\* the body of that answer and stores it under its key, and leaves the other
\* calls where they are; a call that starts while no close is under way
\* goes to its own GET, whatever GETs are pending.
C36_Step ==
    \A t \in Tasks :
        /\ pc[t] = "fetching" /\ pc'[t] = "idle" /\ event'.kind = "returned"
              /\ event'.resp.kind = "response" /\ event'.resp.status = 200
           => /\ event'.result.payload = BytesPayload(event'.resp.body)
              /\ cache'[call[t].key] = event'.resp.body
              /\ \A u \in Tasks \ {t} : pc'[u] = pc[u] /\ call'[u] = call[u]
        /\ pc[t] = "idle" /\ pc'[t] # "idle"
              /\ closer = "idle" /\ waiters = << >>
           => pc'[t] = "fetching"

\* C36: concurrent resolve calls for one uncached URL do not wait for one
\* another, each returns the bytes it fetched and writes the cache; at every
\* state the key is absent from the cache or holds the bytes of the
\* successful fetch that completed last.
C36_LastWriteWins ==
    /\ [](/\ DOMAIN cache = DOMAIN last
          /\ \A k \in DOMAIN cache : cache[k] = last[k])
    /\ [][C36_Step]_vars

\* Two calls for the one URL have both fetched, with different bytes: the
\* second to complete has just returned its own, which the cache now holds
\* in place of those of the first.
C36_Witness ==
    /\ event.kind = "returned" /\ event.resp.kind = "response"
    /\ \A t \in Tasks : pc[t] = "idle"
    /\ event.key \in DOMAIN cache
    /\ cache[event.key] = event.resp.body
    /\ first[event.key] # cache[event.key]

\* C38: a resolve call that waits for the answer to its GET holds a client
\* that has not been closed.
C38_ClientOpen ==
    \A t \in Tasks : pc[t] = "fetching" => call[t].client \notin closed

\* Where the container that token i of a balanced stream opens is closed.
RECURSIVE CloseFrom(_, _, _)
CloseFrom(stream, m, depth) ==
    IF m > Len(stream) THEN m
    ELSE IF Opens(stream[m].type) # ""
    THEN CloseFrom(stream, m + 1, depth + 1)
    ELSE IF Closes(stream[m].type) # ""
    THEN IF depth = 0 THEN m ELSE CloseFrom(stream, m + 1, depth - 1)
    ELSE CloseFrom(stream, m + 1, depth)
CloseOf(stream, i) == CloseFrom(stream, i + 1, 0)

\* The tree that tokens i..j of a balanced stream describe, by kind: each
\* container holds what lies between its open and its close token, and in
\* the place of a paragraph stand the images of its inline token.
RECURSIVE Outline(_, _, _)
Outline(stream, i, j) ==
    IF i > j THEN << >>
    ELSE IF Opens(stream[i].type) = "paragraph"
    THEN [n \in 1..stream[i + 1].images |->
              [kind |-> "image", blocks |-> << >>]]
         \o Outline(stream, CloseOf(stream, i) + 1, j)
    ELSE IF Opens(stream[i].type) # ""
    THEN << [kind |-> Opens(stream[i].type),
             blocks |-> Outline(stream, i + 1, CloseOf(stream, i) - 1)] >>
         \o Outline(stream, CloseOf(stream, i) + 1, j)
    ELSE IF stream[i].type = "fence"
    THEN << [kind |-> "fence", blocks |-> << >>] >>
         \o Outline(stream, i + 1, j)
    ELSE Outline(stream, i + 1, j)

\* The kind of container a block is.
ClassOf(kind) ==
    CASE kind \in {"unordered_list_item", "ordered_list_item"} -> "list_item"
      [] kind \in {"table", "thead", "tbody", "tr", "th", "td"} -> "table"
      [] OTHER -> kind

\* The tree of a block sequence by kind, without the blocks of the kinds
\* `drop`; and an outline without them.
RECURSIVE Shape(_, _)
Shape(nodes, drop) ==
    IF nodes = << >> THEN << >>
    ELSE (IF ClassOf(Head(nodes).kind) \in drop THEN << >>
          ELSE << [kind |-> ClassOf(Head(nodes).kind),
                   blocks |-> Shape(Head(nodes).blocks, drop)] >>)
         \o Shape(Tail(nodes), drop)

\* The items of bullet lists in a block sequence, in document order.
RECURSIVE ItemsIn(_)
ItemsIn(nodes) ==
    IF nodes = << >> THEN << >>
    ELSE (IF Head(nodes).kind = "unordered_list_item"
          THEN << Head(nodes) >> ELSE << >>)
         \o ItemsIn(Head(nodes).blocks) \o ItemsIn(Tail(nodes))

\* Where the items of bullet lists open in a stream, in document order.
ItemIndexes(stream) ==
    SelectSeq([i \in 1..Len(stream) |-> i],
              LAMBDA i : stream[i].type = "list_item_open"
                         /\ stream[i].info = "")

\* The items of bullet lists that are open when token i is reached.
OpenItems(stream, i) ==
    {j \in 1..(i - 1) : /\ stream[j].type = "list_item_open"
                        /\ stream[j].info = ""
                        /\ CloseOf(stream, j) > i}

\* The blocks an update call that did not raise hands to await_update.
NewOutput ==
    markdown'.tasks[Len(markdown'.tasks)].output

\* C31, the update step: the blocks built from a balanced stream are the
\* tree the stream describes, with the images of each paragraph in the
\* place of the paragraph: in the container the paragraph lies in, or in the
\* top-level output when it lies in none.
C31_Step ==
    Updates /\ Balanced(markdown'.stream)
    => Shape(NewOutput, {"hr"})
       = Outline(markdown'.stream, 1, Len(markdown'.stream))

\* C31: on paragraph-close the paragraph is not emitted and its children
\* are spliced into its parent: the container on top of the stack after the
\* pop, or the top-level output when the stack is empty.
C31_Spliced == [][C31_Step]_vars

\* C32, the update step: with the images and rules left out, the blocks
\* built from a balanced stream are the tree the stream describes: each
\* container holds the containers and fences between its open and its close
\* token, in their order, and so does the top-level output.
C32_Step ==
    Updates /\ Balanced(markdown'.stream)
    => Shape(NewOutput, {"hr", "image"})
       = Shape(Outline(markdown'.stream, 1, Len(markdown'.stream)),
               {"image"})

\* C32: on a balanced stream each generic close token pops the container
\* its matching open token pushed and appends it as the last child of the
\* new stack top, or as the last element of the top-level output when the
\* stack is empty, so siblings are in the order of their tokens.
C32_SiblingOrder == [][C32_Step]_vars

\* update has built the list of two items: the second item holds a fence
\* and then a list, after the first item.
C32_Witness ==
    /\ markdown.stream = DocList /\ markdown.raised = ""
    /\ LET output == markdown.tasks[Len(markdown.tasks)].output
       IN  /\ Len(output) = 1
           /\ Len(output[1].blocks) = 2
           /\ output[1].blocks[1].blocks = << >>
           /\ Len(output[1].blocks[2].blocks) = 2
           /\ output[1].blocks[2].blocks[1].kind = "fence"
           /\ output[1].blocks[2].blocks[2].kind = "bullet_list"

\* C34, the update step: the bullet of the n-th item of a bullet list is the
\* one at index k mod N of the N bullets, k being the number of items of
\* bullet lists that are open where the item opens.
C34_Step ==
    Updates /\ Balanced(markdown'.stream)
    => LET stream == markdown'.stream
           at == ItemIndexes(stream)
           items == ItemsIn(NewOutput)
       IN  /\ Len(items) = Len(at)
           /\ \A n \in 1..Len(at) :
                  LET k == Cardinality(OpenItems(stream, at[n]))
                  IN  /\ (k % Len(BULLETS)) + 1 \in DOMAIN BULLETS
                      /\ items[n].marker = BULLETS[(k % Len(BULLETS)) + 1]

\* C34: the bullet of an unordered list item is the one at index k mod N of
\* the fixed N bullets, k being the count of unordered items on the stack
\* when the item opens; the index never leaves the set.
C34_Bullets == [][C34_Step]_vars

\* update has built bullet lists nested deeper than there are bullets: the
\* innermost item has the bullet of the outermost.
C34_Witness ==
    /\ markdown.stream = DocDeep /\ markdown.raised = ""
    /\ LET items == ItemsIn(markdown.tasks[Len(markdown.tasks)].output)
       IN  /\ Len(items) > Len(BULLETS)
           /\ items[Len(BULLETS) + 1].marker = items[1].marker
           /\ items[Len(BULLETS)].marker # items[1].marker

\* The children among the first n of a paragraph that are images, in order.
ImageIndexes(stream, n) ==
    SelectSeq([i \in 1..n |-> i], LAMBDA i : stream[i].type = "image")

\* A child is a token of text: text, a break, inline code, or a token of
\* another kind with content.
IsTextToken(child) ==
    \/ child.type \in {"text", "hardbreak", "softbreak", "code_inline"}
    \/ /\ child.type \notin {"image", "em_open", "strong_open", "s_open",
                             "link_open", "em_close", "strong_close",
                             "s_close", "link_close"}
       /\ child.content # ""

\* A child puts text other than the caption of an image into the run.
HasText(child) ==
    /\ IsTextToken(child)
    /\ child.type \in {"text", "code_inline"} => child.content # ""

\* How many of the first n children open a span and how many close one.
OpensAmong(stream, n, types) ==
    Cardinality({j \in 1..n : stream[j].type \in types})
SpanOpens == {"em_open", "strong_open", "s_open", "link_open"}
SpanCloses == {"em_close", "strong_close", "s_close", "link_close"}

\* The href of the innermost link that is open where child p stands, None
\* when there is no such link.
EnclosingLink(stream, p) ==
    LET open == {j \in 1..(p - 1) :
                    /\ stream[j].type = "link_open"
                    /\ \A k \in (j + 1)..(p - 1) :
                           stream[k].type # "link_close"}
    IN  IF open = {} THEN None
        ELSE LET j == CHOOSE j \in open : \A k \in open : k <= j
             IN  stream[j].attrs.href

\* What holds of a turn of the loop for C33, `texted` saying of the child
\* whether its caption is due: an image adds one block for its source after
\* the blocks that are there, and a caption in brackets to the content when
\* it is due and nothing when it is not; another child adds no block.  And
\* of the end: a paragraph of images only is given an empty content.
C33_Turn(texted) ==
    /\ paragraph.pc = "loop" /\ paragraph'.pc = "loop"
       => LET child == paragraph.children[paragraph.at]
              last_text == paragraph'.content[Len(paragraph'.content)].text
          IN  IF child.type = "image"
              THEN /\ Len(paragraph'.blocks) = Len(paragraph.blocks) + 1
                   /\ SubSeq(paragraph'.blocks, 1, Len(paragraph.blocks))
                      = paragraph.blocks
                   /\ paragraph'.blocks[Len(paragraph'.blocks)].source
                      = Get(child.attrs.src)
                   /\ IF texted
                      THEN /\ Len(paragraph'.content)
                              = Len(paragraph.content) + 1
                           /\ SubSeq(paragraph'.content, 1,
                                     Len(paragraph.content))
                              = paragraph.content
                           /\ Len(last_text) = 3
                           /\ last_text[1] = " [" /\ last_text[3] = "]"
                           /\ last_text[2] \in {Get(child.attrs.alt),
                                                Get(child.attrs.src)}
                      ELSE paragraph'.content = paragraph.content
              ELSE paragraph'.blocks = paragraph.blocks
    /\ paragraph.pc = "loop" /\ paragraph'.pc = "done"
       => /\ paragraph'.blocks = paragraph.blocks
          /\ paragraph.children # << >>
                /\ (\A j \in DOMAIN paragraph.children :
                        paragraph.children[j].type = "image")
             => paragraph'.text = << >>

\* The blocks of the paragraph are those of the images among the children
\* the loop has passed, one each, in the order of the tokens.
C33_Blocks ==
    paragraph.pc # "new"
    => LET at == ImageIndexes(paragraph.children, paragraph.at - 1)
       IN  /\ Len(paragraph.blocks) = Len(at)
           /\ \A n \in 1..Len(at) :
                  paragraph.blocks[n].source
                  = Get(paragraph.children[at[n]].attrs.src)

\* C33, as stated: every image token emits exactly one Image Block, in
\* token order, and a bracketed caption is appended to the text run exactly
\* when the run of the paragraph has non-image text; a paragraph of image
\* tokens only ends with an empty text run.
C33_CaptionInText ==
    /\ []C33_Blocks
    /\ [][C33_Turn(\E j \in DOMAIN paragraph.children :
                       HasText(paragraph.children[j]))]_vars

\* C33, amended: every image token emits exactly one Image Block, in token
\* order, and a bracketed caption is appended to the text run exactly when
\* a text token (text, a break, inline code, or a token of another kind
\* with content) comes before the image in the paragraph; a paragraph of
\* image tokens only ends with an empty text run.
C33_CaptionAfterText ==
    /\ []C33_Blocks
    /\ [][C33_Turn(\E j \in 1..(paragraph.at - 1) :
                       IsTextToken(paragraph.children[j]))]_vars

\* An image, text and an image again: the first image has no caption, the
\* second has one after the text.
C33_Witness ==
    /\ paragraph.pc = "done"
    /\ Len(paragraph.children) = 3
    /\ paragraph.children[1].type = "image"
    /\ paragraph.children[2].type = "text"
    /\ Len(paragraph.blocks) = 2
    /\ Len(paragraph.text) = 2
    /\ paragraph.text[1].text = << "a" >>
    /\ paragraph.text[2].text = << " [", "cat", "]" >>

\* C37: in build_from_token on a well-nested sequence the style stack and
\* the link stack are never empty: the style stack is 1 deeper than there
\* are open em, strong, s and link spans, the link stack 1 deeper than
\* there are open links, both are 1 deep at the end, and each Image Block
\* has the href of the innermost open link, or None, as its link.
C37_Stacks ==
    paragraph.pc # "new"
    => LET stream == paragraph.children
           n == paragraph.at - 1
           at == ImageIndexes(stream, n)
       IN  /\ paragraph.style_stack # << >>
           /\ paragraph.link_stack # << >>
           /\ Len(paragraph.style_stack)
              = 1 + OpensAmong(stream, n, SpanOpens)
                  - OpensAmong(stream, n, SpanCloses)
           /\ Len(paragraph.link_stack)
              = 1 + OpensAmong(stream, n, {"link_open"})
                  - OpensAmong(stream, n, {"link_close"})
           /\ paragraph.pc = "done"
              => /\ Len(paragraph.style_stack) = 1
                 /\ Len(paragraph.link_stack) = 1
           /\ \A b \in 1..Len(at) :
                  paragraph.blocks[b].link_href = EnclosingLink(stream, at[b])

\* An image in an em span in a link: the loop stands behind the image, with
\* both spans open.
C37_Witness ==
    /\ paragraph.pc = "loop"
    /\ Len(paragraph.style_stack) = 3
    /\ Len(paragraph.link_stack) = 2
    /\ Len(paragraph.blocks) = 1
    /\ paragraph.blocks[1].link_href = Some("u")
    /\ paragraph.children[paragraph.at - 1].type = "image"
    /\ paragraph.children[paragraph.at - 2].type = "em_open"

====
